---- MODULE Spec2Model ----
(***************************************************************************)
(* Model of the ata-pipeline0 event pipeline: the preprocessors of         *)
(* helpers/preprocessors.py, the list run_pipeline hands to                *)
(* preprocess_events, and the per-site newsletter signup validators of     *)
(* site/newsletter.py.                                                     *)
(*                                                                         *)
(* A DataFrame is a record [columns, rows]; rows is a sequence of          *)
(* functions from column name to cell.  A cell is a record [k, v]: k is    *)
(* the Python type of the value, v the value.  Strings are sequences of    *)
(* tokens, so that "==" and "in" on strings are different operations.      *)
(***************************************************************************)
EXTENDS Integers, Sequences, FiniteSets, TLC

VARIABLES
    df,             \* the batch preprocess_events is threading through
    df_in,          \* the batch the last applied preprocessor received
    raw,            \* the batch preprocess_events was called with
    preprocessors,  \* the list of preprocessors given to preprocess_events
    applied,        \* the preprocessors called so far, in call order
    status,         \* "running", "done" (returned) or "raised"
    site,           \* the publisher the run is for
    calls,          \* validate() calls made by the newsletter-flag step
    event,          \* the event handed to a validator called on its own
    outcome,        \* what that validate() call did
    db,             \* the rows of the events table, in insertion order
    writes,         \* the last write_events call: what it got and what it did
    timestamps,     \* the timestamps fetch_events was called with
    num_processes,  \* the num_processes fetch_events was called with
    delete_after_read, \* the delete_after_read fetch_events was called with
    processes,      \* the downloads started, in start order, and their state
    disk,           \* the state of each local data folder
    fetch_i,        \* the index of the timestamp fetch_events is working on
    fetch_df,       \* the batch fetch_events has read and not yet yielded
    dfs,            \* the batches fetch_events has yielded, in order
    fetch_log,      \* the steps fetch_events has taken, in order
    fetch_status,   \* where fetch_events is, "done" or the exception raised
    bf_args,        \* the arguments backfill was called with
    bf_calls,       \* the timestamps of each run_pipeline call of backfill
    bf_log,         \* the steps the run_pipeline calls have taken
    bf_status,      \* "idle", "running", "done" or "raised"
    bucket_name,    \* the bucket of the S3 event given to handler
    handler_status, \* "idle", "running" or the exception handler raised
    cache,          \* the results parse_form_submit_dict has cached
    parse_calls     \* the parse_form_submit_dict calls made and their results

pipe_vars == <<df, df_in, raw, preprocessors, applied, status, site, calls>>
val_vars == <<event, outcome>>
write_vars == <<db, writes>>
fetch_vars ==
    <<timestamps, num_processes, delete_after_read, processes, disk, fetch_i,
      fetch_df, dfs, fetch_log, fetch_status>>
backfill_vars == <<bf_args, bf_calls, bf_log, bf_status>>
handler_vars == <<bucket_name, handler_status>>
cache_vars == <<cache, parse_calls>>
io_vars == <<write_vars, fetch_vars, backfill_vars, handler_vars, cache_vars>>

vars == <<pipe_vars, val_vars, io_vars>>

\* nothing has been written, fetched, backfilled, handled or parsed
WriteIdle == db = <<>> /\ writes = <<>>
FetchIdle ==
    /\ timestamps = <<>>
    /\ num_processes = 0
    /\ delete_after_read = TRUE
    /\ processes = <<>>
    /\ disk = <<>>
    /\ fetch_i = 0
    /\ fetch_df = {}
    /\ dfs = <<>>
    /\ fetch_log = <<>>
    /\ fetch_status = "idle"
BackfillIdle == bf_args = <<>> /\ bf_calls = <<>> /\ bf_log = <<>> /\ bf_status = "idle"
HandlerIdle == bucket_name = <<>> /\ handler_status = "idle"
CacheIdle == cache = <<>> /\ parse_calls = <<>>
IoIdle == WriteIdle /\ FetchIdle /\ BackfillIdle /\ HandlerIdle /\ CacheIdle

(***************************************************************************)
(* Bounds of the model.                                                    *)
(***************************************************************************)
MaxRows == 3        \* rows of a batch given to one preprocessor on its own
MaxRawRows == 2     \* rows of a raw batch given to run_pipeline

(***************************************************************************)
(* Cells.                                                                  *)
(***************************************************************************)
PyNone == [k |-> "None", v |-> <<>>]
NaN == [k |-> "NaN", v |-> <<>>]
NaT == [k |-> "NaT", v |-> <<>>]
Text(tokens) == [k |-> "str", v |-> tokens]
Str(s) == Text(<<s>>)
\* a string that holds the Python literal text of the cell c
Literal(c) == [k |-> "str_literal", v |-> c]
PyInt(n) == [k |-> "int", v |-> n]
PyFloat(n) == [k |-> "float", v |-> n]
Timestamp(n) == [k |-> "Timestamp", v |-> n]
Dict(d) == [k |-> "dict", v |-> d]
List(s) == [k |-> "list", v |-> s]
Bool(b) == [k |-> "bool", v |-> b]

isna(c) == c.k \in {"None", "NaN", "NaT"}

(***************************************************************************)
(* Field, event and site names.                                            *)
(***************************************************************************)
DERIVED_TSTAMP == "derived_tstamp"
DOC_HEIGHT == "doc_height"
DOMAIN_SESSIONIDX == "domain_sessionidx"
DOMAIN_USERID == "domain_userid"
DVCE_SCREENHEIGHT == "dvce_screenheight"
DVCE_SCREENWIDTH == "dvce_screenwidth"
EVENT_ID == "event_id"
EVENT_NAME == "event_name"
NETWORK_USERID == "network_userid"
PAGE_URLPATH == "page_urlpath"
PAGE_REFERRER == "page_referrer"
PP_YOFFSET_MAX == "pp_yoffset_max"
REFR_MEDIUM == "refr_medium"
REFR_SOURCE == "refr_source"
SEMISTRUCT_FORM_CHANGE == "unstruct_event_com_snowplowanalytics_snowplow_change_form_1"
SEMISTRUCT_FORM_FOCUS == "unstruct_event_com_snowplowanalytics_snowplow_focus_form_1"
SEMISTRUCT_FORM_SUBMIT == "unstruct_event_com_snowplowanalytics_snowplow_submit_form_1"
USERAGENT == "useragent"

FieldSnowplow ==
    { DERIVED_TSTAMP, DOC_HEIGHT, DOMAIN_SESSIONIDX, DOMAIN_USERID,
      DVCE_SCREENHEIGHT, DVCE_SCREENWIDTH, EVENT_ID, EVENT_NAME, NETWORK_USERID,
      PAGE_URLPATH, PAGE_REFERRER, PP_YOFFSET_MAX, REFR_MEDIUM, REFR_SOURCE,
      SEMISTRUCT_FORM_CHANGE, SEMISTRUCT_FORM_FOCUS, SEMISTRUCT_FORM_SUBMIT,
      USERAGENT }

SITE_NAME == "site_name"
FORM_SUBMIT_IS_NEWSLETTER == "form_submit_is_newsletter"

PAGE_VIEW == "page_view"
PAGE_PING == "page_ping"
SUBMIT_FORM == "submit_form"

AFRO_LA == "afro-la"
DALLAS_FREE_PRESS == "dallas-free-press"
OPEN_VALLEJO == "open-vallejo"
THE_19TH == "the-19th"

SiteName == {AFRO_LA, DALLAS_FREE_PRESS, OPEN_VALLEJO, THE_19TH}

(***************************************************************************)
(* Sequence helpers.                                                       *)
(***************************************************************************)
Range(s) == {s[i] : i \in DOMAIN s}

\* the subsequence of s at the indices in keep, in order
RECURSIVE Pick(_, _, _)
Pick(s, keep, i) ==
    IF i > Len(s) THEN <<>>
    ELSE (IF i \in keep THEN <<s[i]>> ELSE <<>>) \o Pick(s, keep, i + 1)

\* the permutations of 1..n, for every length a batch of the model can have
RECURSIVE PermutationsOf(_)
PermutationsOf(n) ==
    IF n = 0 THEN {<<>>}
    ELSE {[i \in 1..n |-> IF i < k THEN p[i] ELSE IF i = k THEN n ELSE p[i - 1]] :
             p \in PermutationsOf(n - 1), k \in 1..n}

PermutationTable ==
    [n \in 0..(IF MaxRows > MaxRawRows THEN MaxRows ELSE MaxRawRows) |-> PermutationsOf(n)]

Permutations1(n) == PermutationTable[n]

Reorder(s, p) == [i \in 1..Len(s) |-> s[p[i]]]

\* s holds sub as a contiguous run of tokens (Python's "sub in s" on strings)
Contains(s, sub) ==
    \E i \in 0..(Len(s) - Len(sub)) : \A j \in 1..Len(sub) : s[i + j] = sub[j]

Ok(d) == [raised |-> "", df |-> d]
Raise(e, d) == [raised |-> e, df |-> d]

(***************************************************************************)
(* What the text of a raw string cell means to the functions that parse it.*)
(***************************************************************************)
\* strings int() and float() accept
NumericText == {<<"1">>, <<"2">>, <<"400">>, <<"1500">>}
NumericValue(t) ==
    CASE t = <<"1">> -> 1 [] t = <<"2">> -> 2 [] t = <<"400">> -> 400 [] OTHER -> 1500

\* strings float() reads as a NaN
NanText == {<<"nan">>}

\* strings pandas.to_datetime parses, and the instant each one names
DatetimeText ==
    {<<"2022-11-01T00:00:01.051Z">>, <<"2022-11-02T00:00:01.051Z">>,
     <<"2022-12-01T00:00:01.051Z">>}
DatetimeValue(t) ==
    CASE t = <<"2022-11-01T00:00:01.051Z">> -> 1
      [] t = <<"2022-11-02T00:00:01.051Z">> -> 2
      [] OTHER -> 3

\* strings pandas.to_datetime reads as a missing value
NatText == {<<>>, <<"NaT">>}

\* strings ast.literal_eval parses as an expression that is no literal
\* (ValueError); every other plain string here is a SyntaxError
NonLiteralText == {<<"{\"formId\": null}">>}

\* useragent strings the user_agents library classifies as a bot
BotText == {<<"Googlebot/2.1">>}

(***************************************************************************)
(* SelectFieldsRelevant                                                    *)
(***************************************************************************)
SelectFieldsAvailable(fields_relevant, d) ==
    {Ok([columns |-> d.columns \cap fields_relevant,
         rows |-> [i \in 1..Len(d.rows) |->
                      [f \in d.columns \cap fields_relevant |-> d.rows[i][f]]]])}

SelectFieldsRelevant(fields_relevant, d) ==
    LET fields_available == d.columns \cap fields_relevant
    IN  {Ok([columns |-> fields_relevant,
             rows |-> [i \in 1..Len(d.rows) |->
                          [f \in fields_relevant |->
                              IF f \in fields_available THEN d.rows[i][f] ELSE NaN]]])}

(***************************************************************************)
(* DeleteRowsEmpty                                                         *)
(***************************************************************************)
dropna_any_column(rows, subset) ==
    Pick(rows, {i \in 1..Len(rows) : \A f \in DOMAIN rows[i] : ~isna(rows[i][f])}, 1)

dropna(rows, subset) ==
    Pick(rows, {i \in 1..Len(rows) : \A f \in subset : ~isna(rows[i][f])}, 1)

\* the rows with a missing value in a required column the batch has are
\* dropped, whatever required columns it lacks
DeleteRowsEmpty_present_columns(fields_required, d) ==
    {Ok([d EXCEPT !.rows = dropna(d.rows, fields_required \cap d.columns)])}

\* df.dropna(subset=[*fields_required]) raises KeyError for a label of
\* subset that is not a column
DeleteRowsEmpty(fields_required, d) ==
    IF ~(fields_required \subseteq d.columns)
    THEN {Raise("KeyError", d)}
    ELSE {Ok([d EXCEPT !.rows = dropna(d.rows, fields_required)])}

(***************************************************************************)
(* DeleteRowsDuplicateKey                                                  *)
(***************************************************************************)
\* the place of a cell among the cells of its column: the instant of a
\* Timestamp, the lexicographic place of a string
SortKey(c) ==
    CASE c.k \in {"Timestamp", "int", "float"} -> c.v
      [] c.k = "str" /\ c.v = <<>> -> 0
      [] c.k = "str" /\ c.v \in DatetimeText -> DatetimeValue(c.v)
      [] OTHER -> 4

\* a <= b in the order sort_values puts the cells of one column in:
\* ascending, missing values last
SortsBefore(a, b) ==
    \/ isna(b)
    \/ ~isna(a) /\ SortKey(a) <= SortKey(b)

sort_values_none(rows, by) == {rows}

\* every order sort_values may return: the default sort kind is not stable,
\* so rows with equal keys come out in any order
sort_values(rows, by) ==
    {Reorder(rows, p) : p \in
        {q \in Permutations1(Len(rows)) :
            \A i \in 1..(Len(rows) - 1) :
                SortsBefore(rows[q[i]][by], rows[q[i + 1]][by])}}

\* drop_duplicates counts two missing keys as the same key
SameKey(a, b) == (isna(a) /\ isna(b)) \/ a = b

drop_duplicates_last(rows, key) ==
    Pick(rows, {i \in 1..Len(rows) :
                  \A j \in (i + 1)..Len(rows) : ~SameKey(rows[j][key], rows[i][key])}, 1)

\* keep="first"
drop_duplicates(rows, key) ==
    Pick(rows, {i \in 1..Len(rows) :
                  \A j \in 1..(i - 1) : ~SameKey(rows[j][key], rows[i][key])}, 1)

DeleteRowsDuplicateKey(field_primary_key, field_timestamp, d) ==
    IF ~({field_primary_key, field_timestamp} \subseteq d.columns)
    THEN {Raise("KeyError", d)}
    ELSE {Ok([d EXCEPT !.rows = drop_duplicates(sorted, field_primary_key)]) :
             sorted \in sort_values(d.rows, field_timestamp)}

(***************************************************************************)
(* ConvertFieldTypes                                                       *)
(* Each cell conversion gives the converted cell, or the name of the       *)
(* exception it raises as a raised cell.                                   *)
(***************************************************************************)
Raised(e) == [k |-> "raise", v |-> e]

astype_int(c) ==
    CASE c.k = "int" -> c
      [] c.k = "float" -> PyInt(c.v)
      [] c.k = "str" /\ c.v \in NumericText -> PyInt(NumericValue(c.v))
      [] c.k = "None" -> Raised("TypeError")
      [] OTHER -> Raised("ValueError")

astype_float(c) ==
    CASE c.k = "float" -> c
      [] c.k = "int" -> PyFloat(c.v)
      [] c.k \in {"None", "NaN"} -> NaN
      [] c.k = "str" /\ c.v \in NumericText -> PyFloat(NumericValue(c.v))
      [] c.k = "str" /\ c.v \in NanText -> NaN
      [] OTHER -> Raised("ValueError")

to_datetime(c) ==
    CASE c.k = "Timestamp" -> c
      [] isna(c) -> NaT
      [] c.k = "str" /\ c.v \in DatetimeText -> Timestamp(DatetimeValue(c.v))
      [] c.k = "str" /\ c.v \in NatText -> NaT
      [] OTHER -> Raised("ParserError")

astype_category(c) == IF isna(c) THEN NaN ELSE c

\* ast.literal_eval raises ValueError for whatever is not a string (a value
\* already decoded, a missing value) and for a string that parses as an
\* expression but is no literal; a string that does not parse is a
\* SyntaxError, which the except clause does not catch
_convert_to_json(c) ==
    CASE c.k = "str_literal" -> c.v
      [] c.k = "str" /\ c.v \in NonLiteralText -> PyNone
      [] c.k = "str" -> Raised("SyntaxError")
      [] OTHER -> PyNone

ConvertCell(fields_int, fields_float, fields_datetime, fields_categorical, fields_json, f, c) ==
    CASE f \in fields_int -> astype_int(c)
      [] f \in fields_float -> astype_float(c)
      [] f \in fields_datetime -> to_datetime(c)
      [] f \in fields_categorical -> astype_category(c)
      [] f \in fields_json -> _convert_to_json(c)
      [] OTHER -> c

ConvertFieldTypes(fields_int, fields_float, fields_datetime, fields_categorical, fields_json, d) ==
    LET converted == [i \in 1..Len(d.rows) |->
                         [f \in d.columns |->
                             ConvertCell(fields_int, fields_float, fields_datetime,
                                         fields_categorical, fields_json, f, d.rows[i][f])]]
        \* the exceptions the columns of one statement raise, over all rows
        failing(fields) == {converted[i][f].v : <<i, f>> \in
                              {x \in (1..Len(d.rows)) \X (fields \cap d.columns) :
                                  converted[x[1]][x[2]].k = "raise"}}
        \* the statements of transform run in this order; the first that
        \* fails ends the call
        stages == <<fields_int, fields_float, fields_datetime, fields_categorical, fields_json>>
        missing == {s \in 1..Len(stages) : ~(stages[s] \subseteq d.columns)}
        bad == {s \in 1..Len(stages) : failing(stages[s]) # {}}
        first == CHOOSE s \in missing \cup bad : \A t \in missing \cup bad : s <= t
    IN  IF missing \cup bad = {}
        THEN {Ok([d EXCEPT !.rows = converted])}
        ELSE IF first \in missing
             THEN {Raise("KeyError", d)}
             ELSE {Raise(e, d) : e \in failing(stages[first])}

(***************************************************************************)
(* AddFieldSiteName                                                        *)
(***************************************************************************)
AddFieldSiteName(site_name, field_site_name, d) ==
    {Ok([columns |-> d.columns \cup {field_site_name},
         rows |-> [i \in 1..Len(d.rows) |->
                      [f \in d.columns \cup {field_site_name} |->
                          IF f = field_site_name THEN Str(site_name) ELSE d.rows[i][f]]]])}

(***************************************************************************)
(* ReplaceNaNs                                                             *)
(***************************************************************************)
ReplaceNaNs(replace_with, d) ==
    {Ok([d EXCEPT !.rows = [i \in 1..Len(d.rows) |->
                               [f \in d.columns |->
                                   IF d.rows[i][f].k = "NaN" THEN replace_with
                                   ELSE d.rows[i][f]]]])}

(***************************************************************************)
(* DeleteRowsBot: drops the rows whose useragent the user_agents library   *)
(* classifies as a bot.                                                    *)
(***************************************************************************)
is_bot(c) == c.k = "str" /\ c.v \in BotText

DeleteRowsBot(field_useragent, d) ==
    IF field_useragent \notin d.columns
    THEN {Raise("KeyError", d)}
    ELSE {Ok([d EXCEPT !.rows =
                 Pick(d.rows, {i \in 1..Len(d.rows) : ~is_bot(d.rows[i][field_useragent])}, 1)])}

(***************************************************************************)
(* Form-submission payloads and validators (site/newsletter.py).           *)
(* A call gives [ret, raised, parses, evaluated]: the value returned, the  *)
(* exception raised ("" for none), the number of parse_form_submit_dict    *)
(* calls made and the predicates evaluated, in order.                      *)
(***************************************************************************)
Returns(name, c, n) == [ret |-> c, raised |-> "", parses |-> n, evaluated |-> <<name>>]
Throws(name, e, n) == [ret |-> PyNone, raised |-> e, parses |-> n, evaluated |-> <<name>>]

Get(d, key) == IF key \in DOMAIN d THEN d[key] ELSE PyNone

\* FormSubmitData of a payload, or the exception subscripting it raises
parse_form_submit_dict(data) ==
    IF data.k # "dict" THEN Raised("TypeError")
    ELSE IF ~({"formId", "formClasses", "elements"} \subseteq DOMAIN data.v)
    THEN Raised("KeyError")
    ELSE IF \E i \in 1..Len(data.v.elements) :
                ~({"name", "nodeName"} \subseteq DOMAIN data.v.elements[i])
    THEN Raised("KeyError")
    ELSE [k |-> "FormSubmitData",
          v |-> [form_id |-> data.v.formId,
                 form_classes |-> data.v.formClasses,
                 elements |-> [i \in 1..Len(data.v.elements) |->
                                  [name |-> data.v.elements[i].name,
                                   node_name |-> data.v.elements[i].nodeName,
                                   value |-> Get(data.v.elements[i], "value"),
                                   type |-> Get(data.v.elements[i], "type")]]]]

\* Python truth value of a returned cell
Truthy(c) == c.k = "bool" /\ c.v

\* "a and b": b is evaluated only when a is true; the value is a's when a
\* is false, b's otherwise
PyAnd(a, b) ==
    IF a.raised # "" \/ ~Truthy(a.ret) THEN a
    ELSE [ret |-> b.ret, raised |-> b.raised, parses |-> a.parses + b.parses,
          evaluated |-> a.evaluated \o b.evaluated]

\* "a or b": b is evaluated only when a is false
PyOr(a, b) ==
    IF a.raised # "" \/ Truthy(a.ret) THEN a
    ELSE [ret |-> b.ret, raised |-> b.raised, parses |-> a.parses + b.parses,
          evaluated |-> a.evaluated \o b.evaluated]

has_data_always(ev) == Returns("has_data", Bool(TRUE), 0)

has_data(ev) == Returns("has_data", Bool(ev[SEMISTRUCT_FORM_SUBMIT].k # "None"), 0)

\* some element is an INPUT and some element, maybe another, has type email
has_email_input_any_elements(ev) ==
    LET form_data == parse_form_submit_dict(ev[SEMISTRUCT_FORM_SUBMIT])
    IN  IF form_data.k = "raise" THEN Throws("has_email_input", form_data.v, 1)
        ELSE Returns("has_email_input",
                     Bool(/\ \E i \in 1..Len(form_data.v.elements) :
                                form_data.v.elements[i].node_name = Str("INPUT")
                          /\ \E i \in 1..Len(form_data.v.elements) :
                                form_data.v.elements[i].type = Str("email")), 1)

has_email_input(ev) ==
    LET form_data == parse_form_submit_dict(ev[SEMISTRUCT_FORM_SUBMIT])
    IN  IF form_data.k = "raise" THEN Throws("has_email_input", form_data.v, 1)
        ELSE Returns("has_email_input",
                     Bool(\E i \in 1..Len(form_data.v.elements) :
                             /\ form_data.v.elements[i].node_name = Str("INPUT")
                             /\ form_data.v.elements[i].type = Str("email")), 1)

\* SiteNewsletterSignupValidator.validate
BaseValidate(ev) == PyAnd(has_data(ev), has_email_input(ev))

is_in_newsletter_page(ev) ==
    Returns("is_in_newsletter_page", Bool(ev[PAGE_URLPATH] = Str("/subscribe")), 0)

AfroLaValidate(ev) == PyAnd(BaseValidate(ev), is_in_newsletter_page(ev))

\* DallasFreePressNewsletterSignupValidator.is_newsletter_inline_form
DfpIsNewsletterInlineForm(ev) ==
    LET form_data == parse_form_submit_dict(ev[SEMISTRUCT_FORM_SUBMIT])
    IN  IF form_data.k = "raise" THEN Throws("is_newsletter_inline_form", form_data.v, 1)
        ELSE Returns("is_newsletter_inline_form",
                     Bool(form_data.v.form_id = Str("mc-embedded-subscribe-form")), 1)

DallasFreePressValidate(ev) == PyAnd(BaseValidate(ev), DfpIsNewsletterInlineForm(ev))

\* OpenVallejoNewsletterSignupValidator.is_newsletter_inline_form
is_newsletter_inline_form(ev) ==
    LET form_data == parse_form_submit_dict(ev[SEMISTRUCT_FORM_SUBMIT])
    IN  IF form_data.k = "raise" THEN Throws("is_newsletter_inline_form", form_data.v, 1)
        ELSE Returns("is_newsletter_inline_form",
                     Bool(form_data.v.form_id = Str("mc-embedded-subscribe-form")), 1)

\* the body is "pass": the call returns None
is_newsletter_popup_form(ev) == Returns("is_newsletter_popup_form", PyNone, 0)

OpenVallejoValidate(ev) ==
    PyAnd(BaseValidate(ev), PyOr(is_newsletter_inline_form(ev), is_newsletter_popup_form(ev)))

is_newsletter_form_exact(ev) ==
    LET form_data == parse_form_submit_dict(ev[SEMISTRUCT_FORM_SUBMIT])
    IN  IF form_data.k = "raise" THEN Throws("is_newsletter_form", form_data.v, 1)
        ELSE Returns("is_newsletter_form", Bool(form_data.v.form_id = Str("newsletter")), 1)

is_newsletter_form(ev) ==
    LET form_data == parse_form_submit_dict(ev[SEMISTRUCT_FORM_SUBMIT])
    IN  IF form_data.k = "raise" THEN Throws("is_newsletter_form", form_data.v, 1)
        ELSE IF form_data.v.form_id.k # "str" THEN Throws("is_newsletter_form", "TypeError", 1)
        ELSE Returns("is_newsletter_form",
                     Bool(Contains(form_data.v.form_id.v, <<"newsletter">>)), 1)

The19thValidate(ev) == PyAnd(BaseValidate(ev), is_newsletter_form(ev))

\* SITES[site_name].newsletter_signup_validator.validate(ev)
validate(site_name, ev) ==
    CASE site_name = AFRO_LA -> AfroLaValidate(ev)
      [] site_name = DALLAS_FREE_PRESS -> DallasFreePressValidate(ev)
      [] site_name = OPEN_VALLEJO -> OpenVallejoValidate(ev)
      [] OTHER -> The19thValidate(ev)

(***************************************************************************)
(* AddFieldFormSubmitIsNewsletter: the rows whose event name is            *)
(* submit_form get the validator's result as the flag, the others None.    *)
(***************************************************************************)
IsSubmitForm(field_event_name, row) == row[field_event_name] = Str(SUBMIT_FORM)

\* A call gives [raised, df, calls]: calls are the rows validate() was called
\* on, in order.
AddFieldFormSubmitIsNewsletter_all_rows(site_name, field_event_name, field_flag, d) ==
    {[raised |-> "",
      df |-> [columns |-> d.columns \cup {field_flag},
              rows |-> [i \in 1..Len(d.rows) |->
                           [f \in d.columns \cup {field_flag} |->
                               IF f = field_flag THEN validate(site_name, d.rows[i]).ret
                               ELSE d.rows[i][f]]]],
      calls |-> d.rows]}

AddFieldFormSubmitIsNewsletter(site_name, field_event_name, field_flag, d) ==
    LET submitted == {i \in 1..Len(d.rows) : IsSubmitForm(field_event_name, d.rows[i])}
        raising == {i \in submitted : validate(site_name, d.rows[i]).raised # ""}
        first == CHOOSE i \in raising : \A j \in raising : i <= j
    IN  IF field_event_name \notin d.columns
        THEN {[raised |-> "KeyError", df |-> d, calls |-> <<>>]}
        ELSE IF raising # {}
        THEN {[raised |-> validate(site_name, d.rows[first]).raised, df |-> d,
               calls |-> Pick(d.rows, {i \in submitted : i <= first}, 1)]}
        ELSE {[raised |-> "",
               df |-> [columns |-> d.columns \cup {field_flag},
                       rows |-> [i \in 1..Len(d.rows) |->
                                    [f \in d.columns \cup {field_flag} |->
                                        IF f # field_flag THEN d.rows[i][f]
                                        ELSE IF i \in submitted
                                        THEN validate(site_name, d.rows[i]).ret
                                        ELSE PyNone]]],
               calls |-> Pick(d.rows, submitted, 1)]}

(***************************************************************************)
(* run_pipeline: the configuration of each preprocessor and their order.   *)
(***************************************************************************)
fields_required ==
    { DERIVED_TSTAMP, DOC_HEIGHT, DOMAIN_SESSIONIDX, DOMAIN_USERID, DVCE_SCREENHEIGHT,
      DVCE_SCREENWIDTH, EVENT_ID, EVENT_NAME, NETWORK_USERID, PAGE_URLPATH }
fields_int == {DOMAIN_SESSIONIDX}
fields_float == {DOC_HEIGHT, DVCE_SCREENHEIGHT, DVCE_SCREENWIDTH, PP_YOFFSET_MAX}
fields_datetime == {DERIVED_TSTAMP}
fields_categorical == {EVENT_NAME, REFR_MEDIUM, REFR_SOURCE}
fields_json == {SEMISTRUCT_FORM_CHANGE, SEMISTRUCT_FORM_FOCUS, SEMISTRUCT_FORM_SUBMIT}

RunPipelineConvertLast ==
    << "SelectFieldsRelevant", "DeleteRowsEmpty", "DeleteRowsDuplicateKey",
       "ConvertFieldTypes", "DeleteRowsBot", "AddFieldSiteName", "ReplaceNaNs",
       "AddFieldFormSubmitIsNewsletter" >>

\* the rows with an empty required field are deleted after the duplicates
RunPipelineEmptyAfterDedup ==
    << "SelectFieldsRelevant", "ConvertFieldTypes", "DeleteRowsDuplicateKey",
       "DeleteRowsEmpty", "DeleteRowsBot", "AddFieldSiteName", "ReplaceNaNs",
       "AddFieldFormSubmitIsNewsletter" >>

RunPipelinePreprocessors ==
    << "SelectFieldsRelevant", "DeleteRowsEmpty", "ConvertFieldTypes",
       "DeleteRowsDuplicateKey", "DeleteRowsBot", "AddFieldSiteName", "ReplaceNaNs",
       "AddFieldFormSubmitIsNewsletter" >>

(***************************************************************************)
(* preprocess_events: one action per preprocessor.  Each action is one     *)
(* pass of the loop: the call of the next preprocessor of the list on the  *)
(* current batch; the call after the last one is followed by the return.   *)
(***************************************************************************)
\* the loop passes over the preprocessor it is at, when another follows it
Current_skip ==
    IF Len(applied) + 1 < Len(preprocessors) THEN preprocessors[Len(applied) + 2]
    ELSE IF Len(applied) < Len(preprocessors) THEN preprocessors[Len(applied) + 1]
    ELSE ""

\* for preprocessor in preprocessors: the preprocessor the loop is at
Current == IF Len(applied) < Len(preprocessors) THEN preprocessors[Len(applied) + 1] ELSE ""

Call(name, o) ==
    /\ status = "running"
    /\ Current = name
    /\ df_in' = df
    /\ applied' = Append(applied, name)
    /\ df' = IF o.raised = "" THEN o.df ELSE df
    /\ status' = IF o.raised # "" THEN "raised"
                 ELSE IF Len(applied) + 1 = Len(preprocessors) THEN "done"
                 ELSE "running"
    /\ UNCHANGED <<raw, preprocessors, site, event, outcome, io_vars>>

CallSelectFieldsRelevant ==
    \E o \in SelectFieldsRelevant(FieldSnowplow, df) :
        Call("SelectFieldsRelevant", o) /\ UNCHANGED calls

CallDeleteRowsEmpty ==
    \E o \in DeleteRowsEmpty(fields_required, df) :
        Call("DeleteRowsEmpty", o) /\ UNCHANGED calls

CallConvertFieldTypes ==
    \E o \in ConvertFieldTypes(fields_int, fields_float, fields_datetime,
                               fields_categorical, fields_json, df) :
        Call("ConvertFieldTypes", o) /\ UNCHANGED calls

CallDeleteRowsDuplicateKey ==
    \E o \in DeleteRowsDuplicateKey(EVENT_ID, DERIVED_TSTAMP, df) :
        Call("DeleteRowsDuplicateKey", o) /\ UNCHANGED calls

CallDeleteRowsBot ==
    \E o \in DeleteRowsBot(USERAGENT, df) :
        Call("DeleteRowsBot", o) /\ UNCHANGED calls

CallAddFieldSiteName ==
    \E o \in AddFieldSiteName(site, SITE_NAME, df) :
        Call("AddFieldSiteName", o) /\ UNCHANGED calls

CallReplaceNaNs ==
    \E o \in ReplaceNaNs(PyNone, df) :
        Call("ReplaceNaNs", o) /\ UNCHANGED calls

CallAddFieldFormSubmitIsNewsletter ==
    \E o \in AddFieldFormSubmitIsNewsletter(site, EVENT_NAME, FORM_SUBMIT_IS_NEWSLETTER, df) :
        /\ Call("AddFieldFormSubmitIsNewsletter", o)
        /\ calls' = o.calls

(***************************************************************************)
(* Inputs.                                                                 *)
(***************************************************************************)
NoBatch == [columns |-> {}, rows |-> <<>>]
NoEvent == <<>>

RECURSIVE SeqsUpTo(_, _)
SeqsUpTo(S, n) ==
    IF n = 0 THEN {<<>>}
    ELSE LET shorter == SeqsUpTo(S, n - 1)
         IN  shorter \cup {Append(q, x) : q \in {r \in shorter : Len(r) = n - 1}, x \in S}

EmailInput ==
    [name |-> Str("email"), value |-> Str("dummy@dummydomain.com"),
     nodeName |-> Str("INPUT"), type |-> Str("email")]
TextInput ==
    [name |-> Str("ref"), value |-> Str(""), nodeName |-> Str("INPUT"), type |-> Str("text")]
\* an element that is no INPUT but has type email
EmailButton == [name |-> Str("go"), nodeName |-> Str("BUTTON"), type |-> Str("email")]
\* an element with neither value nor type
Select == [name |-> Str("topic"), nodeName |-> Str("SELECT")]

ElementLists ==
    { <<>>, <<EmailInput>>, <<TextInput>>, <<TextInput, EmailInput>>,
      <<TextInput, EmailButton>>, <<Select>> }

FormIds ==
    { Str("mc-embedded-subscribe-form"), Text(<<"mc-embedded-subscribe-form", "-2">>),
      Str("newsletter"), Text(<<"footer-", "newsletter", "-signup">>),
      Str("Newsletter"), Str("dummy-id") }

Form(form_id, elements) ==
    Dict([formId |-> form_id, formClasses |-> <<Str("validate")>>, elements |-> elements])

\* what the submit-form column can hold once ConvertFieldTypes has run
Payloads ==
    {Form(id, els) : id \in FormIds, els \in ElementLists}
        \cup {PyNone, NaN, Dict([field |-> Str("value")]), List(<<>>), PyInt(1)}

RawBase ==
    [f \in FieldSnowplow \cup {"app_id"} |->
        CASE f = DERIVED_TSTAMP -> Str("2022-11-01T00:00:01.051Z")
          [] f = DOC_HEIGHT -> Str("1500")
          [] f = DOMAIN_SESSIONIDX -> Str("1")
          [] f = DOMAIN_USERID -> Str("7292d425")
          [] f = DVCE_SCREENHEIGHT -> Str("400")
          [] f = DVCE_SCREENWIDTH -> Str("400")
          [] f = EVENT_ID -> Str("A0")
          [] f = EVENT_NAME -> Str(PAGE_VIEW)
          [] f = NETWORK_USERID -> Str("156f6713")
          [] f = PAGE_URLPATH -> Str("/subscribe")
          [] f = REFR_MEDIUM -> Str("unknown")
          [] f = USERAGENT -> Str("Mozilla/5.0")
          [] f = "app_id" -> Str("web")
          [] OTHER -> PyNone]

\* raw rows: the page views of one event id at every kind of timestamp, a
\* page view of a second event id, form submissions, and rows that differ from
\* the first page view in one respect
RawRows ==
    {[RawBase EXCEPT ![DERIVED_TSTAMP] = t] :
        t \in {Str("2022-11-01T00:00:01.051Z"), Str("2022-11-02T00:00:01.051Z"),
               Text(<<>>), PyNone}}
    \cup {[RawBase EXCEPT ![EVENT_NAME] = Str(SUBMIT_FORM), ![SEMISTRUCT_FORM_SUBMIT] = p] :
            p \in {PyNone,
                   Literal(Form(Str("mc-embedded-subscribe-form"), <<EmailInput>>)),
                   Literal(Form(Str("dummy-id"), <<EmailInput>>)),
                   Literal(List(<<>>))}}
    \cup {[RawBase EXCEPT ![EVENT_ID] = Str("B1")],
          [RawBase EXCEPT ![DOC_HEIGHT] = PyNone],
          [RawBase EXCEPT ![DOC_HEIGHT] = Str("nan")],
          [RawBase EXCEPT ![USERAGENT] = Str("Googlebot/2.1")],
          [RawBase EXCEPT ![DERIVED_TSTAMP] = Str("yesterday")],
          [RawBase EXCEPT ![SEMISTRUCT_FORM_FOCUS] = Str("{'formId': ")]}

\* the columns a raw batch can come with
RawColumns ==
    { FieldSnowplow \cup {"app_id"},
      (FieldSnowplow \ {PP_YOFFSET_MAX, SEMISTRUCT_FORM_CHANGE, REFR_SOURCE}) \cup {"app_id"},
      FieldSnowplow \ {NETWORK_USERID} }

Restrict(row, columns) == [f \in columns |-> row[f]]

RawBatches ==
    {[columns |-> c, rows |-> [i \in 1..Len(rows) |-> Restrict(rows[i], c)]] :
        c \in RawColumns, rows \in SeqsUpTo(RawRows, MaxRawRows)}
    \cup {NoBatch}

(***************************************************************************)
(* run_pipeline's preprocessing of one raw batch for one site.             *)
(***************************************************************************)
Init ==
    /\ site \in SiteName
    /\ raw \in RawBatches
    /\ df = raw
    /\ df_in = raw
    /\ preprocessors = RunPipelinePreprocessors
    /\ applied = <<>>
    /\ status = "running"
    /\ calls = <<>>
    /\ event = NoEvent
    /\ outcome = <<>>
    /\ IoIdle

Next ==
    \/ CallSelectFieldsRelevant
    \/ CallDeleteRowsEmpty
    \/ CallConvertFieldTypes
    \/ CallDeleteRowsDuplicateKey
    \/ CallDeleteRowsBot
    \/ CallAddFieldSiteName
    \/ CallReplaceNaNs
    \/ CallAddFieldFormSubmitIsNewsletter

Spec == Init /\ [][Next]_vars

(***************************************************************************)
(* DeleteRowsDuplicateKey called on its own on a batch whose timestamp     *)
(* column is converted.                                                    *)
(***************************************************************************)
ConvertedRows ==
    {[f \in {EVENT_ID, DERIVED_TSTAMP, EVENT_NAME} |->
         CASE f = EVENT_ID -> id [] f = DERIVED_TSTAMP -> t [] OTHER -> n] :
        id \in {Str("A0")},
        t \in {Timestamp(1), Timestamp(2), NaT},
        n \in {Str(PAGE_VIEW), Str(PAGE_PING)}}
    \cup {[f \in {EVENT_ID, DERIVED_TSTAMP, EVENT_NAME} |->
              CASE f = EVENT_ID -> id [] f = DERIVED_TSTAMP -> t [] OTHER -> Str(PAGE_VIEW)] :
            id \in {Str("B1"), PyNone}, t \in {Timestamp(1), Timestamp(2)}}

ConvertedBatches ==
    {[columns |-> {EVENT_ID, DERIVED_TSTAMP, EVENT_NAME}, rows |-> rows] :
        rows \in SeqsUpTo(ConvertedRows, MaxRows)}

InitDedup ==
    /\ site = AFRO_LA
    /\ raw \in ConvertedBatches
    /\ df = raw
    /\ df_in = raw
    /\ preprocessors = <<"DeleteRowsDuplicateKey">>
    /\ applied = <<>>
    /\ status = "running"
    /\ calls = <<>>
    /\ event = NoEvent
    /\ outcome = <<>>
    /\ IoIdle

NextDedup == CallDeleteRowsDuplicateKey

SpecDedup == InitDedup /\ [][NextDedup]_vars

(***************************************************************************)
(* A site's validator called on one submit_form event of a preprocessed    *)
(* batch.                                                                  *)
(***************************************************************************)
EventBase ==
    [f \in FieldSnowplow |->
        IF f = EVENT_NAME THEN Str(SUBMIT_FORM)
        ELSE ConvertCell(fields_int, fields_float, fields_datetime, fields_categorical,
                         fields_json, f, RawBase[f])]

Events ==
    {[EventBase EXCEPT ![SEMISTRUCT_FORM_SUBMIT] = p, ![PAGE_URLPATH] = u] :
        p \in Payloads, u \in {Str("/subscribe"), Str("/"), Text(<<"/subscribe", "/">>)}}

InitValidate ==
    /\ site \in SiteName
    /\ event \in Events
    /\ outcome = <<>>
    /\ raw = NoBatch
    /\ df = NoBatch
    /\ df_in = NoBatch
    /\ preprocessors = <<>>
    /\ applied = <<>>
    /\ status = "done"
    /\ calls = <<>>
    /\ IoIdle

Validate ==
    /\ outcome = <<>>
    /\ event # NoEvent
    /\ outcome' = <<validate(site, event)>>
    /\ UNCHANGED <<pipe_vars, event, io_vars>>

NextValidate == Validate

SpecValidate == InitValidate /\ [][NextValidate]_vars

(***************************************************************************)
(* Properties.                                                             *)
(***************************************************************************)
\* the preprocessor called last returned (df is its result, df_in its input)
Returned(name) ==
    /\ status # "raised"
    /\ applied # <<>>
    /\ applied[Len(applied)] = name

\* the rows of a batch with the key of the cell id
Group(rows, id) == {i \in 1..Len(rows) : SameKey(rows[i][EVENT_ID], id)}

\* the earliest timestamp of the rows at the indices in g: the least of
\* those that are not missing, and missing when all are
Earliest(rows, g) ==
    LET present == {rows[i][DERIVED_TSTAMP].v : i \in {j \in g : ~isna(rows[j][DERIVED_TSTAMP])}}
    IN  IF present = {} THEN NaT
        ELSE Timestamp(CHOOSE t \in present : \A u \in present : t <= u)

SameTimestamp(a, b) == (isna(a) /\ isna(b)) \/ a = b

Reordered(p) == [df_in EXCEPT !.rows = Reorder(df_in.rows, p)]

KeysAndTimestamps(rows) ==
    {<<IF isna(rows[i][EVENT_ID]) THEN PyNone ELSE rows[i][EVENT_ID],
       IF isna(rows[i][DERIVED_TSTAMP]) THEN NaT ELSE rows[i][DERIVED_TSTAMP]>> :
        i \in 1..Len(rows)}

\* two different rows of one event_id both have its earliest timestamp
TieOnEarliest(rows) ==
    \E i, j \in 1..Len(rows) :
        /\ rows[i] # rows[j]
        /\ SameKey(rows[i][EVENT_ID], rows[j][EVENT_ID])
        /\ SameTimestamp(rows[i][DERIVED_TSTAMP],
                         Earliest(rows, Group(rows, rows[i][EVENT_ID])))
        /\ SameTimestamp(rows[j][DERIVED_TSTAMP],
                         Earliest(rows, Group(rows, rows[i][EVENT_ID])))

\* C2 as claimed: the rows DeleteRowsDuplicateKey returns are the same for
\* every order of the input rows, also when rows of one event_id have equal
\* or missing timestamps and differ in other fields.
C2_OrderIrrelevant ==
    Returned("DeleteRowsDuplicateKey") =>
        LET returned == Range(df.rows)
        IN  \A p \in Permutations1(Len(df_in.rows)) :
                \A o \in DeleteRowsDuplicateKey(EVENT_ID, DERIVED_TSTAMP, Reordered(p)) :
                    Range(o.df.rows) = returned

\* C2 as amended: the event_ids and timestamps DeleteRowsDuplicateKey
\* returns are the same for every order of the input rows, and so are the
\* rows unless two different rows of one event_id tie on its earliest
\* timestamp (equal, or all missing).
C2_OrderIrrelevantButForTies ==
    Returned("DeleteRowsDuplicateKey") =>
        LET returned == Range(df.rows)
            keys == KeysAndTimestamps(df.rows)
            tie == TieOnEarliest(df_in.rows)
        IN  \A p \in Permutations1(Len(df_in.rows)) :
                \A o \in DeleteRowsDuplicateKey(EVENT_ID, DERIVED_TSTAMP, Reordered(p)) :
                    /\ o.raised = ""
                    /\ KeysAndTimestamps(o.df.rows) = keys
                    /\ ~tie => Range(o.df.rows) = returned

\* all rows are of one event_id, the first with a missing timestamp, the
\* last with the earliest, and no two tie
C2_Witness ==
    /\ Returned("DeleteRowsDuplicateKey")
    /\ Len(df_in.rows) >= 2
    /\ ~TieOnEarliest(df_in.rows)
    /\ Cardinality(Group(df_in.rows, df_in.rows[1][EVENT_ID])) = Len(df_in.rows)
    /\ df_in.rows[1][DERIVED_TSTAMP] = NaT
    /\ df_in.rows[Len(df_in.rows)][DERIVED_TSTAMP] = Timestamp(1)
    /\ df_in.rows[1][EVENT_NAME] # df_in.rows[Len(df_in.rows)][EVENT_NAME]

\* no cell of the row in a required field is missing
Complete(row) == \A f \in fields_required : ~isna(row[f])

\* C3: when run_pipeline's whole step list has been applied to a raw batch,
\* no two rows of the result share an event_id and no row has a missing
\* value in a required field.
C3_FinalBatchClean ==
    status = "done" =>
        /\ \A i, j \in 1..Len(df.rows) :
              SameKey(df.rows[i][EVENT_ID], df.rows[j][EVENT_ID]) => i = j
        /\ \A i \in 1..Len(df.rows) : Complete(df.rows[i])

\* every b of the list has an a ahead of it
Before(list, a, b) ==
    \A j \in 1..Len(list) : list[j] = b => \E i \in 1..(j - 1) : list[i] = a

\* C4: in the step list run_pipeline builds, and so in the order the steps
\* are applied, ConvertFieldTypes comes before DeleteRowsDuplicateKey and
\* before DeleteRowsEmpty.
C4_ConvertBeforeDedupAndEmpty ==
    /\ Before(preprocessors, "ConvertFieldTypes", "DeleteRowsDuplicateKey")
    /\ Before(preprocessors, "ConvertFieldTypes", "DeleteRowsEmpty")
    /\ Before(applied, "ConvertFieldTypes", "DeleteRowsDuplicateKey")
    /\ Before(applied, "ConvertFieldTypes", "DeleteRowsEmpty")

\* C5: after DeleteRowsEmpty no row has a missing value in a required field,
\* and the rows are the input rows whose required fields are all present,
\* each as often as in the input and in the input's order, whatever their
\* other fields hold.
C5_DeleteRowsEmpty ==
    Returned("DeleteRowsEmpty") =>
        /\ \A i \in 1..Len(df.rows) : Complete(df.rows[i])
        /\ df.rows = SelectSeq(df_in.rows, Complete)
        /\ df.columns = df_in.columns

\* a row with a missing optional field is kept and another row is dropped
C5_Witness ==
    /\ Returned("DeleteRowsEmpty")
    /\ Len(df.rows) >= 1
    /\ Len(df.rows) < Len(df_in.rows)
    /\ \E i \in 1..Len(df.rows) : isna(df.rows[i][PP_YOFFSET_MAX])

\* C6: after SelectFieldsRelevant the columns are the relevant fields and
\* nothing else, there are as many rows as before, a relevant field of the
\* input keeps its values and a relevant field the input lacks is missing in
\* every row.
C6_SelectFieldsRelevant ==
    Returned("SelectFieldsRelevant") =>
        /\ df.columns = FieldSnowplow
        /\ Len(df.rows) = Len(df_in.rows)
        /\ \A i \in 1..Len(df.rows) :
              /\ DOMAIN df.rows[i] = FieldSnowplow
              /\ \A f \in FieldSnowplow :
                    IF f \in df_in.columns THEN df.rows[i][f] = df_in.rows[i][f]
                    ELSE isna(df.rows[i][f])

\* the raw batch has a column that is not relevant, lacks relevant ones and
\* has rows
C6_Witness ==
    /\ Returned("SelectFieldsRelevant")
    /\ df_in.columns \ FieldSnowplow # {}
    /\ FieldSnowplow \ df_in.columns # {}
    /\ Len(df.rows) = MaxRawRows

\* C7: after AddFieldFormSubmitIsNewsletter every row whose event name is
\* not submit_form has the flag None, every submit_form row has as flag what
\* the site's validator returns for it, and the validator was called on the
\* submit_form rows only, once each.
C7_FlagOnlyOnSubmitForm ==
    Returned("AddFieldFormSubmitIsNewsletter") =>
        /\ Len(df.rows) = Len(df_in.rows)
        /\ \A i \in 1..Len(df.rows) :
              IF df_in.rows[i][EVENT_NAME] = Str(SUBMIT_FORM)
              THEN df.rows[i][FORM_SUBMIT_IS_NEWSLETTER] = validate(site, df_in.rows[i]).ret
              ELSE df.rows[i][FORM_SUBMIT_IS_NEWSLETTER] = PyNone
        /\ \A k \in 1..Len(calls) : calls[k][EVENT_NAME] = Str(SUBMIT_FORM)
        /\ Len(calls) = Cardinality({i \in 1..Len(df_in.rows) :
                                       df_in.rows[i][EVENT_NAME] = Str(SUBMIT_FORM)})

\* a batch with a newsletter submission and a page view
C7_Witness ==
    /\ Returned("AddFieldFormSubmitIsNewsletter")
    /\ \E i, j \in 1..Len(df.rows) :
          /\ df.rows[i][EVENT_NAME] = Str(SUBMIT_FORM)
          /\ df.rows[i][FORM_SUBMIT_IS_NEWSLETTER] = Bool(TRUE)
          /\ df.rows[j][EVENT_NAME] = Str(PAGE_VIEW)
          /\ df.rows[j][FORM_SUBMIT_IS_NEWSLETTER] = PyNone
    /\ Len(calls) = 1

\* validate() has been called on the event and has returned
Validated == outcome # <<>> /\ outcome[1].raised = ""

\* C8: for every site of the registry, validate() on a submit_form event
\* returns True or False, never None.
C8_ValidateReturnsBool ==
    Validated => outcome[1].ret.k = "bool"

\* the payload is a dict with an element that is an INPUT of type email
HasEmailInput(payload) ==
    /\ payload.k = "dict"
    /\ "elements" \in DOMAIN payload.v
    /\ \E i \in 1..Len(payload.v.elements) :
          /\ Get(payload.v.elements[i], "nodeName") = Str("INPUT")
          /\ Get(payload.v.elements[i], "type") = Str("email")

\* C9: for every site, validate() on an event whose submit-form payload is
\* None returns False without raising, without parsing the payload and
\* without evaluating any predicate but has_data.
C9_NullPayloadIsFalse ==
    (outcome # <<>> /\ event[SEMISTRUCT_FORM_SUBMIT] = PyNone) =>
        /\ outcome[1].raised = ""
        /\ outcome[1].ret = Bool(FALSE)
        /\ outcome[1].parses = 0
        /\ outcome[1].evaluated = <<"has_data">>

\* an event with no payload on the page the first site's own rule accepts
C9_Witness ==
    /\ outcome # <<>>
    /\ site = AFRO_LA
    /\ event[SEMISTRUCT_FORM_SUBMIT] = PyNone
    /\ event[PAGE_URLPATH] = Str("/subscribe")

\* the site's own rule, for the three sites with one rule
SiteRule(site_name, ev) ==
    CASE site_name = AFRO_LA -> ev[PAGE_URLPATH] = Str("/subscribe")
      [] site_name = DALLAS_FREE_PRESS ->
            ev[SEMISTRUCT_FORM_SUBMIT].v.formId = Str("mc-embedded-subscribe-form")
      [] OTHER ->
            /\ ev[SEMISTRUCT_FORM_SUBMIT].v.formId.k = "str"
            /\ Contains(ev[SEMISTRUCT_FORM_SUBMIT].v.formId.v, <<"newsletter">>)

\* C10: for AfroLA, DallasFreePress and The19th, validate() returns True
\* exactly when the payload is not None, one of its elements is an INPUT of
\* type email, and the site's own rule holds: page path equal to /subscribe,
\* form id equal to mc-embedded-subscribe-form, form id containing newsletter.
C10_TrueExactlyWhenRulesHold ==
    (outcome # <<>> /\ site \in {AFRO_LA, DALLAS_FREE_PRESS, THE_19TH}) =>
        ((outcome[1].raised = "" /\ outcome[1].ret = Bool(TRUE))
            <=> (/\ event[SEMISTRUCT_FORM_SUBMIT] # PyNone
                 /\ HasEmailInput(event[SEMISTRUCT_FORM_SUBMIT])
                 /\ SiteRule(site, event)))

\* The19th accepts a form id that has newsletter inside a longer name
C10_Witness ==
    /\ outcome # <<>>
    /\ site = THE_19TH
    /\ event[SEMISTRUCT_FORM_SUBMIT].k = "dict"
    /\ Get(event[SEMISTRUCT_FORM_SUBMIT].v, "formId") = Text(<<"footer-", "newsletter", "-signup">>)
    /\ outcome[1].ret = Bool(TRUE)

(***************************************************************************)
(* ConvertFieldTypes called twice in a row on a batch that has every       *)
(* relevant column.                                                        *)
(***************************************************************************)
ConvertBatches ==
    {[columns |-> FieldSnowplow,
      rows |-> [i \in 1..Len(rows) |-> Restrict(rows[i], FieldSnowplow)]] :
        rows \in SeqsUpTo(RawRows, MaxRawRows)}

InitConvert ==
    /\ site = AFRO_LA
    /\ raw \in ConvertBatches
    /\ df = raw
    /\ df_in = raw
    /\ preprocessors = <<"ConvertFieldTypes", "ConvertFieldTypes">>
    /\ applied = <<>>
    /\ status = "running"
    /\ calls = <<>>
    /\ event = NoEvent
    /\ outcome = <<>>
    /\ IoIdle

NextConvert == CallConvertFieldTypes

SpecConvert == InitConvert /\ [][NextConvert]_vars

\* C11: OpenVallejo's inline-form predicate holds exactly for the payloads
\* whose form id contains mc-embedded-subscribe-form, with or without
\* further characters around it: when validate() gets as far as the
\* predicate, it returns True for these form ids and for no other.
C11_InlineFormContains ==
    (/\ outcome # <<>>
     /\ site = OPEN_VALLEJO
     /\ outcome[1].raised = ""
     /\ \E k \in 1..Len(outcome[1].evaluated) :
           outcome[1].evaluated[k] = "is_newsletter_inline_form") =>
        (outcome[1].ret = Bool(TRUE)
            <=> Contains(event[SEMISTRUCT_FORM_SUBMIT].v.formId.v,
                         <<"mc-embedded-subscribe-form">>))

\* C12: ConvertFieldTypes applied to a batch it has converted returns the
\* values it was given in every field, the decoded JSON fields included.
C12_ConvertIdempotent ==
    (Returned("ConvertFieldTypes") /\ Len(applied) = 2) => df.rows = df_in.rows

\* no cell outside the JSON fields makes ConvertFieldTypes raise
ConvertsButForJson(d) ==
    \A i \in 1..Len(d.rows) : \A f \in d.columns \ fields_json :
        ConvertCell(fields_int, fields_float, fields_datetime, fields_categorical,
                    fields_json, f, d.rows[i][f]).k # "raise"

\* C13: ConvertFieldTypes does not raise on a JSON-field value that cannot
\* be decoded, however it is malformed: the cell becomes None, and the
\* decodable cells of the batch are decoded.
C13_MalformedJsonBecomesNull ==
    (applied = <<"ConvertFieldTypes">> /\ ConvertsButForJson(df_in)) =>
        /\ status # "raised"
        /\ \A i \in 1..Len(df.rows) : \A f \in fields_json :
              df.rows[i][f] = IF df_in.rows[i][f].k = "str_literal"
                              THEN df_in.rows[i][f].v ELSE PyNone

(***************************************************************************)
(* write_events: one INSERT ... ON CONFLICT DO NOTHING statement for the   *)
(* rows of the batch, run in one transaction.                              *)
(***************************************************************************)
MaxWriteRows == 2   \* rows of a batch given to write_events

\* the composite key of the events table
Key(row) == <<row[SITE_NAME], row[EVENT_ID]>>

Keys(rows) == {Key(rows[i]) : i \in 1..Len(rows)}

\* a plain INSERT: a row whose key is stored fails the statement
RECURSIVE insert_plain(_, _)
insert_plain(data, stored) ==
    IF data = <<>> THEN [raised |-> "", rows |-> stored]
    ELSE IF Key(Head(data)) \in Keys(stored)
    THEN [raised |-> "IntegrityError", rows |-> stored]
    ELSE insert_plain(Tail(data), Append(stored, Head(data)))

\* an upsert: a row whose key is stored replaces the stored row
RECURSIVE on_conflict_do_update(_, _)
on_conflict_do_update(data, stored) ==
    IF data = <<>> THEN [raised |-> "", rows |-> stored]
    ELSE IF Key(Head(data)) \in Keys(stored)
    THEN on_conflict_do_update(Tail(data),
             [r \in 1..Len(stored) |->
                 IF Key(stored[r]) = Key(Head(data)) THEN Head(data) ELSE stored[r]])
    ELSE on_conflict_do_update(Tail(data), Append(stored, Head(data)))

\* insert(Event).values(data).on_conflict_do_nothing(index_elements=
\* [site_name, event_id]): the rows are inserted in order, and a row whose
\* key is stored, or was inserted earlier by the statement, is skipped
RECURSIVE on_conflict_do_nothing(_, _)
on_conflict_do_nothing(data, stored) ==
    IF data = <<>> THEN [raised |-> "", rows |-> stored]
    ELSE IF Key(Head(data)) \in Keys(stored)
    THEN on_conflict_do_nothing(Tail(data), stored)
    ELSE on_conflict_do_nothing(Tail(data), Append(stored, Head(data)))

\* what the transaction has inserted stays in the table when it fails
rollback_nothing(stored, inserted) == inserted

\* with session_factory.begin(): an exception inside the block rolls back
\* what the transaction has inserted
rollback(stored, inserted) == stored

\* What a call of write_events on the rows data can do to the table stored.
\* execute_fails: session.execute raises for a reason that is not a key
\* conflict (the connection, another constraint), after the statement has
\* inserted some of the rows or none; the transaction is then rolled back
\* and the exception leaves write_events.  What a statement with no rows at
\* all does is not fixed by the code: both outcomes are given.
write_events(data, stored, execute_fails) ==
    LET result == on_conflict_do_nothing(data, stored)
        done == [raised |-> "", db |-> result.rows,
                 ret |-> PyInt(Len(result.rows) - Len(stored))]
        failed(e, n) ==
            [raised |-> e, ret |-> PyNone,
             db |-> rollback(stored, on_conflict_do_nothing(SubSeq(data, 1, n), stored).rows)]
    IN  IF execute_fails THEN {failed("SQLAlchemyError", n) : n \in 0..Len(data)}
        ELSE IF result.raised # "" THEN {failed(result.raised, 0)}
        ELSE IF data = <<>> THEN {done, failed("SQLAlchemyError", 0)}
        ELSE {done}

WriteEvents(data, execute_fails) ==
    \E o \in write_events(data, db, execute_fails) :
        /\ db' = o.db
        /\ writes' = [df |-> data, before |-> db, failed |-> execute_fails,
                      ret |-> o.ret, raised |-> o.raised]

StoreRow(s, id, name) ==
    [f \in {SITE_NAME, EVENT_ID, EVENT_NAME} |->
        CASE f = SITE_NAME -> Str(s) [] f = EVENT_ID -> Str(id) [] OTHER -> Str(name)]

\* preprocessed rows of two sites; one key comes with two different rows
StoreRows ==
    {StoreRow(AFRO_LA, "A0", PAGE_VIEW), StoreRow(AFRO_LA, "A0", PAGE_PING),
     StoreRow(AFRO_LA, "B1", PAGE_VIEW), StoreRow(THE_19TH, "A0", PAGE_VIEW)}

PipelineIdle ==
    /\ df = NoBatch
    /\ df_in = NoBatch
    /\ raw = NoBatch
    /\ preprocessors = <<>>
    /\ applied = <<>>
    /\ status = "idle"
    /\ site = AFRO_LA
    /\ calls = <<>>

ValidateIdle == event = NoEvent /\ outcome = <<>>

InitWrite ==
    /\ PipelineIdle
    /\ ValidateIdle
    /\ IoIdle

CallWriteEvents ==
    /\ \E data \in SeqsUpTo(StoreRows, MaxWriteRows), execute_fails \in BOOLEAN :
          WriteEvents(data, execute_fails)
    /\ UNCHANGED <<pipe_vars, val_vars, fetch_vars, backfill_vars, handler_vars, cache_vars>>

NextWrite == CallWriteEvents

SpecWrite == InitWrite /\ [][NextWrite]_vars

\* C14: a write_events call with one row whose (site_name, event_id) key is
\* stored, made after earlier calls have stored rows, inserts nothing,
\* returns 0, raises nothing and leaves the table as it was, unless the
\* execution fails for a reason other than the key.
C14_DuplicateKeySkipped ==
    (/\ writes # <<>>
     /\ Len(writes.df) = 1
     /\ Key(writes.df[1]) \in Keys(writes.before)
     /\ ~writes.failed) =>
        /\ writes.raised = ""
        /\ writes.ret = PyInt(0)
        /\ db = writes.before

\* two rows are stored and the row written has the key of one of them and
\* another event name
C14_Witness ==
    /\ writes # <<>>
    /\ Len(writes.before) = 2
    /\ Len(writes.df) = 1
    /\ ~writes.failed
    /\ \E i \in 1..Len(writes.before) :
          /\ Key(writes.before[i]) = Key(writes.df[1])
          /\ writes.before[i] # writes.df[1]
    /\ writes.ret = PyInt(0)

(***************************************************************************)
(* fetch_events: a generator that downloads the S3 folder of each          *)
(* timestamp with a subprocess, at most num_processes at a time, and       *)
(* yields the folder of each timestamp as a batch, in list order.          *)
(***************************************************************************)
MaxTimestamps == 3  \* timestamps given to fetch_events
MaxProcesses == 2   \* num_processes given to fetch_events

\* a timestamp is a date-hour and the minutes past it
Hours == {0, 1, 2}

FetchTimestamps == {<<h, 0>> : h \in Hours} \cup {<<1, 30>>}

\* the folder of a timestamp is named by its year, month, day and hour
convert_to_s3_folder(timestamp) == timestamp[1]

\* the .gz files of a folder of the bucket; the folder of hour 0 has none
S3Objects(folder) == IF folder = 0 THEN {} ELSE {folder}

\* Popen.communicate returns once the process has exited
communicate_nowait(process) == TRUE

communicate(process) == process.exited

\* no return code is taken for a failure
returncode_ignored(process) == FALSE

\* process_return_code != 0
returncode_not_0(process) == process.returncode # 0

\* processes[timestamp]: the last download started for the timestamp
Process(timestamp) ==
    LET ks == {k \in 1..Len(processes) : processes[k].timestamp = timestamp}
    IN  IF ks = {} THEN 0 ELSE CHOOSE k \in ks : \A j \in ks : j <= k

\* _fetch_folder: makes the local folder and starts aws s3 sync
_fetch_folder(timestamp, ps, d) ==
    [processes |-> Append(ps, [timestamp |-> timestamp, exited |-> FALSE, returncode |-> 0]),
     disk |-> [d EXCEPT ![convert_to_s3_folder(timestamp)] =
                  IF @ = "absent" THEN "created" ELSE @]]

\* all the timestamps of the list are started, whatever num_processes is
RECURSIVE StartAll(_, _, _)
StartAll(n, ps, d) ==
    IF Len(ps) >= Len(timestamps) THEN [processes |-> ps, disk |-> d]
    ELSE LET started == _fetch_folder(timestamps[Len(ps) + 1], ps, d)
         IN  StartAll(n, started.processes, started.disk)

\* the first num_processes timestamps of the list are started one by one
RECURSIVE StartFirst(_, _, _)
StartFirst(n, ps, d) ==
    IF n = 0 \/ Len(ps) >= Len(timestamps) THEN [processes |-> ps, disk |-> d]
    ELSE LET started == _fetch_folder(timestamps[Len(ps) + 1], ps, d)
         IN  StartFirst(n - 1, started.processes, started.disk)

Log(op, timestamp) == fetch_log' = Append(fetch_log, [op |-> op, timestamp |-> timestamp])

\* lines 27-36, up to the head of the loop over the timestamps
FetchStart ==
    /\ fetch_status = "called"
    /\ LET started == StartFirst(num_processes, <<>>, disk)
       IN  /\ processes' = started.processes
           /\ disk' = started.disk
           /\ fetch_log' = [k \in 1..Len(started.processes) |->
                               [op |-> "start", timestamp |-> timestamps[k]]]
    /\ fetch_i' = 1
    /\ fetch_status' = IF timestamps = <<>> THEN "done" ELSE "communicate"
    /\ UNCHANGED <<timestamps, num_processes, delete_after_read, fetch_df, dfs>>

\* lines 40-57: look the process up, wait for it, raise on a return code
\* that is not 0, start the next download
FetchCommunicate ==
    /\ fetch_status = "communicate"
    /\ LET timestamp == timestamps[fetch_i]
           k == Process(timestamp)
       IN  IF k = 0
           THEN /\ fetch_status' = "KeyError"
                /\ UNCHANGED <<processes, disk, fetch_log>>
           ELSE /\ communicate(processes[k])
                /\ IF returncode_not_0(processes[k])
                   THEN /\ fetch_status' = "EventFetchError"
                        /\ Log("communicate", timestamp)
                        /\ UNCHANGED <<processes, disk>>
                   ELSE /\ fetch_status' = "read"
                        /\ IF Len(processes) < Len(timestamps)
                           THEN LET timestamp_next == timestamps[Len(processes) + 1]
                                    started == _fetch_folder(timestamp_next, processes, disk)
                                IN  /\ processes' = started.processes
                                    /\ disk' = started.disk
                                    /\ fetch_log' = fetch_log \o
                                          <<[op |-> "communicate", timestamp |-> timestamp],
                                            [op |-> "start", timestamp |-> timestamp_next]>>
                           ELSE /\ Log("communicate", timestamp)
                                /\ UNCHANGED <<processes, disk>>
    /\ UNCHANGED <<timestamps, num_processes, delete_after_read, fetch_i, fetch_df, dfs>>

\* _read_folder: the files of the local folder; none when the folder has
\* no files or is not there
_read_folder(timestamp) ==
    IF disk[convert_to_s3_folder(timestamp)] = "synced"
    THEN S3Objects(convert_to_s3_folder(timestamp))
    ELSE {}

\* line 60
FetchRead ==
    /\ fetch_status = "read"
    /\ fetch_df' = _read_folder(timestamps[fetch_i])
    /\ Log("read", timestamps[fetch_i])
    /\ fetch_status' = IF delete_after_read THEN "delete" ELSE "yield"
    /\ UNCHANGED <<timestamps, num_processes, delete_after_read, processes, disk, fetch_i, dfs>>

\* the first timestamp is taken for the end of the list
is_first_index(i) == i = 1

\* i == len(timestamps) - 1, i counted from 0 in the code and from 1 here
is_last_index(i) == i = Len(timestamps)

\* lines 63-70: the whole data directory at the last timestamp, the folder
\* of the timestamp otherwise; shutil.rmtree raises when the folder is not
\* there
FetchDelete ==
    /\ fetch_status = "delete"
    /\ IF is_last_index(fetch_i)
       THEN /\ disk' = [f \in DOMAIN disk |-> "absent"]
            /\ Log("rmtree", timestamps[fetch_i])
            /\ fetch_status' = "yield"
       ELSE LET folder == convert_to_s3_folder(timestamps[fetch_i])
            IN  IF disk[folder] = "absent"
                THEN /\ fetch_status' = "FileNotFoundError"
                     /\ UNCHANGED <<disk, fetch_log>>
                ELSE /\ disk' = [disk EXCEPT ![folder] = "absent"]
                     /\ Log("delete", timestamps[fetch_i])
                     /\ fetch_status' = "yield"
    /\ UNCHANGED <<timestamps, num_processes, delete_after_read, processes, fetch_i, fetch_df, dfs>>

\* line 73, and the caller asking for the next batch
FetchYield ==
    /\ fetch_status = "yield"
    /\ dfs' = Append(dfs, [timestamp |-> timestamps[fetch_i], files |-> fetch_df])
    /\ Log("yield", timestamps[fetch_i])
    /\ fetch_i' = fetch_i + 1
    /\ fetch_status' = IF fetch_i = Len(timestamps) THEN "done" ELSE "communicate"
    /\ UNCHANGED <<timestamps, num_processes, delete_after_read, processes, disk, fetch_df>>

\* a running aws s3 sync exits: with return code 0 once the files of the
\* folder are in the local folder, with another return code otherwise
DownloadExit(k, returncode) ==
    /\ k \in 1..Len(processes)
    /\ ~processes[k].exited
    /\ processes' = [processes EXCEPT ![k] = [@ EXCEPT !.exited = TRUE, !.returncode = returncode]]
    /\ disk' = IF returncode = 0
               THEN [disk EXCEPT ![convert_to_s3_folder(processes[k].timestamp)] = "synced"]
               ELSE disk
    /\ Log("exit", processes[k].timestamp)
    /\ UNCHANGED <<timestamps, num_processes, delete_after_read, fetch_i, fetch_df, dfs,
                   fetch_status>>

\* the sequences of distinct elements of S of length at most n
RECURSIVE DistinctSeqs(_, _)
DistinctSeqs(S, n) ==
    IF n = 0 THEN {<<>>}
    ELSE LET shorter == DistinctSeqs(S, n - 1)
         IN  shorter \cup UNION {{Append(s, x) : x \in S \ Range(s)} : s \in shorter}

InitFetch ==
    /\ PipelineIdle
    /\ ValidateIdle
    /\ WriteIdle /\ BackfillIdle /\ HandlerIdle /\ CacheIdle
    /\ timestamps \in DistinctSeqs(FetchTimestamps, MaxTimestamps)
    /\ num_processes \in 0..MaxProcesses
    /\ delete_after_read \in BOOLEAN
    /\ processes = <<>>
    /\ disk = [f \in Hours |-> "absent"]
    /\ fetch_i = 0
    /\ fetch_df = {}
    /\ dfs = <<>>
    /\ fetch_log = <<>>
    /\ fetch_status = "called"

NextFetch ==
    /\ \/ FetchStart
       \/ FetchCommunicate
       \/ FetchRead
       \/ FetchDelete
       \/ FetchYield
       \/ \E k \in 1..MaxTimestamps : DownloadExit(k, 0)
       \/ \E k \in 1..MaxTimestamps : DownloadExit(k, 1)
    /\ UNCHANGED <<pipe_vars, val_vars, write_vars, backfill_vars, handler_vars, cache_vars>>

SpecFetch == InitFetch /\ [][NextFetch]_vars

Terminated == fetch_status \in {"done", "KeyError", "EventFetchError", "FileNotFoundError"}

\* every download that was started has exited with return code 0
AllSucceeded ==
    \A k \in 1..Len(processes) : processes[k].exited /\ processes[k].returncode = 0

DistinctHours ==
    \A i, j \in 1..Len(timestamps) :
        convert_to_s3_folder(timestamps[i]) = convert_to_s3_folder(timestamps[j]) => i = j

\* C15 as stated: for distinct timestamps and num_processes >= 1, when every
\* download has succeeded fetch_events has ended normally and has yielded
\* one batch per timestamp, in list order, an empty one for a timestamp
\* whose folder has no files.
C15_OneBatchPerTimestamp ==
    (num_processes >= 1 /\ Terminated /\ AllSucceeded) =>
        /\ fetch_status = "done"
        /\ Len(dfs) = Len(timestamps)
        /\ \A k \in 1..Len(dfs) :
              /\ dfs[k].timestamp = timestamps[k]
              /\ S3Objects(convert_to_s3_folder(timestamps[k])) = {} => dfs[k].files = {}

\* C15 amended: the same for timestamps of distinct date-hours, and each
\* batch holds the files of the folder of its timestamp.
C15_OneBatchPerDateHour ==
    (num_processes >= 1 /\ DistinctHours /\ Terminated /\ AllSucceeded) =>
        /\ fetch_status = "done"
        /\ Len(dfs) = Len(timestamps)
        /\ \A k \in 1..Len(dfs) :
              /\ dfs[k].timestamp = timestamps[k]
              /\ dfs[k].files = S3Objects(convert_to_s3_folder(timestamps[k]))

\* three date-hours, two downloads at a time, the second download exits
\* before the first, one folder has no files
C15_Witness ==
    /\ fetch_status = "done"
    /\ num_processes = 2
    /\ DistinctHours
    /\ AllSucceeded
    /\ Len(dfs) = 3
    /\ \E k \in 1..3 : dfs[k].files = {}
    /\ \E k \in 1..3 : dfs[k].files # {}
    /\ \E a, b \in 1..Len(fetch_log) :
          /\ a < b
          /\ fetch_log[a] = [op |-> "exit", timestamp |-> timestamps[2]]
          /\ fetch_log[b] = [op |-> "exit", timestamp |-> timestamps[1]]

(***************************************************************************)
(* backfill: computes the hourly timestamps of the days asked for and      *)
(* calls run_pipeline on all of them, or on one slice after another.       *)
(***************************************************************************)
MaxDays == 1        \* days given to backfill
MaxBatchSize == 5   \* batch_size given to backfill
HoursPerDay == 24

\* range(n) as a list
PyRange(n) == [k \in 1..n |-> k - 1]

\* one timestamp more than the days hold
get_timestamps_inclusive(start_date, days) ==
    [k \in 1..(days * HoursPerDay + 1) |-> start_date + PyRange(days * HoursPerDay + 1)[k]]

\* [start_date + timedelta(hours=hour_diff) for hour_diff in range(days * 24)]
get_timestamps(start_date, days) ==
    [k \in 1..(days * HoursPerDay) |-> start_date + PyRange(days * HoursPerDay)[k]]

\* timestamps[idx : idx + batch_size], idx counted from 0
Slice(ts, idx, batch_size) ==
    LET last == IF idx + batch_size < Len(ts) THEN idx + batch_size ELSE Len(ts)
    IN  [k \in 1..(last - idx) |-> ts[idx + k]]

\* an exception of run_pipeline meets no try in backfill and ends it
PropagateNot(e) == "loop"

Propagate(e) == "raised"

BfLog(batch_num, step) ==
    bf_log' = Append(bf_log, [batch_num |-> batch_num, step |-> step])

\* the batch being worked on, counted from 0
BatchNum == Len(bf_calls) - 1

\* lines 26-36 up to the next call of run_pipeline, or the end of backfill.
\* The call binds the publisher as site_name, the name the run_pipeline of
\* src/main.py has for it and the one of ata_pipeline0/main.py has not: the
\* call either enters run_pipeline or raises TypeError.
BackfillLoop ==
    /\ bf_status = "loop"
    /\ LET ts == get_timestamps(bf_args.start_date, bf_args.days)
           idx == Len(bf_calls) * bf_args.batch_size
           more == IF bf_args.batch
                   THEN bf_args.batch_size > 0 /\ idx < Len(ts)
                   ELSE bf_calls = <<>>
           current_timestamps == IF bf_args.batch THEN Slice(ts, idx, bf_args.batch_size) ELSE ts
       IN  IF bf_args.batch /\ bf_args.batch_size = 0
           THEN /\ bf_status' = "ValueError"
                /\ UNCHANGED <<bf_calls, bf_log>>
           ELSE IF ~more
           THEN /\ bf_status' = "done"
                /\ UNCHANGED <<bf_calls, bf_log>>
           ELSE /\ bf_calls' = Append(bf_calls, current_timestamps)
                /\ \/ /\ bf_status' = "fetch"
                      /\ BfLog(Len(bf_calls), "call")
                   \/ /\ bf_status' = Propagate("TypeError")
                      /\ BfLog(Len(bf_calls), "raise")
    /\ UNCHANGED <<bf_args, db, writes>>

\* run_pipeline, lines 42-50: the batches of the timestamps are fetched, or
\* the fetch raises
RunPipelineFetch ==
    /\ bf_status = "fetch"
    /\ \/ /\ bf_status' = "preprocess"
          /\ BfLog(BatchNum, "fetch")
       \/ /\ bf_status' = Propagate("EventFetchError")
          /\ BfLog(BatchNum, "raise")
    /\ UNCHANGED <<bf_args, bf_calls, db, writes>>

\* run_pipeline, lines 53-100: the rows are preprocessed, or a preprocessor
\* raises
RunPipelinePreprocess ==
    /\ bf_status = "preprocess"
    /\ \/ /\ bf_status' = "write"
          /\ BfLog(BatchNum, "preprocess")
       \/ /\ bf_status' = Propagate("KeyError")
          /\ BfLog(BatchNum, "raise")
    /\ UNCHANGED <<bf_args, bf_calls, db, writes>>

\* the row the pipeline has for the events of a timestamp
BackfillRow(timestamp) == StoreRow(bf_args.site, timestamp, PAGE_VIEW)

\* run_pipeline, lines 102-106: the rows are written, or the write raises
RunPipelineWrite ==
    /\ bf_status = "write"
    /\ \E execute_fails \in BOOLEAN :
          LET current_timestamps == bf_calls[Len(bf_calls)]
              data == [k \in 1..Len(current_timestamps) |-> BackfillRow(current_timestamps[k])]
          IN  /\ WriteEvents(data, execute_fails)
              /\ IF writes'.raised = ""
                 THEN /\ bf_status' = "loop"
                      /\ BfLog(BatchNum, "write")
                 ELSE /\ bf_status' = Propagate(writes'.raised)
                      /\ BfLog(BatchNum, "raise")
    /\ UNCHANGED <<bf_args, bf_calls>>

BackfillArgs ==
    [start_date : {0, 100}, days : 0..MaxDays, batch : BOOLEAN,
     batch_size : (-1)..MaxBatchSize, site : {AFRO_LA}]

InitBackfill ==
    /\ PipelineIdle
    /\ ValidateIdle
    /\ WriteIdle /\ FetchIdle /\ HandlerIdle /\ CacheIdle
    /\ bf_args \in BackfillArgs
    /\ bf_calls = <<>>
    /\ bf_log = <<>>
    /\ bf_status = "loop"

NextBackfill ==
    /\ \/ BackfillLoop
       \/ RunPipelineFetch
       \/ RunPipelinePreprocess
       \/ RunPipelineWrite
    /\ UNCHANGED <<pipe_vars, val_vars, fetch_vars, handler_vars, cache_vars>>

SpecBackfill == InitBackfill /\ [][NextBackfill]_vars

\* the steps of the log at which run_pipeline raised
Raises == {p \in 1..Len(bf_log) : bf_log[p].step = "raise"}

\* C16: when backfill runs with --batch and run_pipeline has raised on a
\* batch, the rows of every earlier batch are stored, the raise is the last
\* step taken and the batch it happened in is the last one handed to
\* run_pipeline; the steps of the batches follow one another in batch order.
C16_RaiseStopsBackfill ==
    (bf_args # <<>> /\ bf_args.batch) =>
        /\ \A p \in Raises :
              /\ p = Len(bf_log)
              /\ bf_log[p].batch_num = Len(bf_calls) - 1
              /\ \A k \in 1..(Len(bf_calls) - 1) : \A j \in 1..Len(bf_calls[k]) :
                    \E r \in 1..Len(db) : db[r] = BackfillRow(bf_calls[k][j])
        /\ \A p, q \in 1..Len(bf_log) : p <= q => bf_log[p].batch_num <= bf_log[q].batch_num

\* the third batch raises after two batches were written
C16_Witness ==
    /\ bf_args # <<>>
    /\ bf_args.batch
    /\ bf_status = "raised"
    /\ Len(bf_calls) = 3
    /\ Len(db) = 2 * bf_args.batch_size
    /\ bf_args.batch_size >= 2
    /\ Len(get_timestamps(bf_args.start_date, bf_args.days)) > 3 * bf_args.batch_size

\* the timestamps handed to run_pipeline so far, one call after another
RECURSIVE Flatten(_)
Flatten(slices) == IF slices = <<>> THEN <<>> ELSE Head(slices) \o Flatten(Tail(slices))

\* C19: the timestamps backfill hands to run_pipeline are, in order, the
\* hours start_date + 0h, start_date + 1h, ...; a backfill that ends
\* normally, without --batch or with batch_size >= 1, has handed over all
\* 24 * days of them; with --batch every call gets at least one and at most
\* batch_size timestamps.
C19_SlicesPartitionHours ==
    bf_args # <<>> =>
        LET passed == Flatten(bf_calls)
        IN  /\ \A p \in 1..Len(passed) : passed[p] = bf_args.start_date + (p - 1)
            /\ Len(passed) <= HoursPerDay * bf_args.days
            /\ (bf_status = "done" /\ (bf_args.batch => bf_args.batch_size >= 1)) =>
                  Len(passed) = HoursPerDay * bf_args.days
            /\ bf_args.batch =>
                  \A k \in 1..Len(bf_calls) :
                      Len(bf_calls[k]) >= 1 /\ Len(bf_calls[k]) <= bf_args.batch_size

\* a day was backfilled in slices of batch_size hours, batch_size not a
\* divisor of the 24 hours, the last slice shorter than the others
C19_Witness ==
    /\ bf_args # <<>>
    /\ bf_args.batch
    /\ bf_args.days = 1
    /\ bf_status = "done"
    /\ bf_calls # <<>>
    /\ Len(bf_calls[Len(bf_calls)]) < bf_args.batch_size
    /\ Len(Flatten(bf_calls)) = HoursPerDay

(***************************************************************************)
(* handler: the entry point of the S3 trigger.  It finds the site of the   *)
(* bucket the event names and runs the pipeline on the object.             *)
(***************************************************************************)
\* bucket names, as the pieces they are made of
BucketNames ==
    {<<"lnl-snowplow-", s>> : s \in SiteName}
    \cup {<<"lnl-snowplow-", "unknown-site">>, <<"lnl-snowplow-">>, <<"other-bucket">>,
          <<"dev-", "lnl-snowplow-", AFRO_LA>>}

\* re.findall("lnl-snowplow-(.*)", bucket_name): what follows the first
\* "lnl-snowplow-" of the name, or no match
findall(name) ==
    LET at == {i \in 1..Len(name) : name[i] = "lnl-snowplow-"}
    IN  IF at = {} THEN <<>>
        ELSE <<SubSeq(name, (CHOOSE i \in at : \A j \in at : i <= j) + 1, Len(name))>>

\* the keys of SITES
InRegistry(key) == Len(key) = 1 /\ key[1] \in SiteName

\* lines 30-31
HandlerLookup ==
    /\ handler_status = "called"
    /\ LET matches == findall(bucket_name)
       IN  IF matches = <<>>
           THEN handler_status' = "IndexError" /\ UNCHANGED site
           ELSE IF ~InRegistry(matches[1])
           THEN handler_status' = "KeyError" /\ UNCHANGED site
           ELSE handler_status' = "fetch" /\ site' = matches[1][1]
    /\ UNCHANGED <<df, df_in, raw, preprocessors, applied, status, calls, val_vars,
                   write_vars, fetch_vars, backfill_vars, bucket_name, cache_vars>>

\* run_pipeline, lines 42-53: the events of the object are fetched, or the
\* fetch raises, and preprocess_events is called on them
HandlerFetch ==
    /\ handler_status = "fetch"
    /\ \/ /\ handler_status' = "EventObjectFetchError"
          /\ UNCHANGED <<df, df_in, raw, preprocessors, status>>
       \/ /\ raw' \in RawBatches
          /\ df' = raw'
          /\ df_in' = raw'
          /\ preprocessors' = RunPipelinePreprocessors
          /\ status' = "running"
          /\ handler_status' = "preprocess"
    /\ UNCHANGED <<applied, site, calls, val_vars, write_vars, fetch_vars, backfill_vars,
                   bucket_name, cache_vars>>

\* run_pipeline, lines 102-106, and the way out of it for an exception of a
\* preprocessor
HandlerWrite ==
    /\ handler_status = "preprocess"
    /\ \/ /\ status = "raised"
          /\ handler_status' = "raised"
          /\ UNCHANGED write_vars
       \/ /\ status = "done"
          /\ \E execute_fails \in BOOLEAN : WriteEvents(df.rows, execute_fails)
          /\ handler_status' = IF writes'.raised = "" THEN "done" ELSE writes'.raised
    /\ UNCHANGED <<pipe_vars, val_vars, fetch_vars, backfill_vars, bucket_name, cache_vars>>

InitHandler ==
    /\ PipelineIdle
    /\ ValidateIdle
    /\ WriteIdle /\ FetchIdle /\ BackfillIdle /\ CacheIdle
    /\ bucket_name \in BucketNames
    /\ handler_status = "called"

NextHandler ==
    \/ HandlerLookup
    \/ HandlerFetch
    \/ Next
    \/ HandlerWrite

SpecHandler == InitHandler /\ [][NextHandler]_vars

\* C17 as stated: once handler has looked up a bucket whose publisher is not
\* in the registry, it has failed with UnknownPublisherError and nothing has
\* been fetched, preprocessed or written.
C17_UnknownPublisherError ==
    (/\ bucket_name # <<>>
     /\ handler_status # "called"
     /\ \A k \in 1..Len(findall(bucket_name)) : ~InRegistry(findall(bucket_name)[k])) =>
        /\ handler_status = "UnknownPublisherError"
        /\ raw = NoBatch
        /\ applied = <<>>
        /\ WriteIdle

(***************************************************************************)
(* DeleteRowsEmpty called on its own on a raw batch.                       *)
(***************************************************************************)
InitEmpty ==
    /\ site = AFRO_LA
    /\ raw \in RawBatches
    /\ df = raw
    /\ df_in = raw
    /\ preprocessors = <<"DeleteRowsEmpty">>
    /\ applied = <<>>
    /\ status = "running"
    /\ calls = <<>>
    /\ ValidateIdle
    /\ IoIdle

NextEmpty == CallDeleteRowsEmpty

SpecEmpty == InitEmpty /\ [][NextEmpty]_vars

MaxParseCalls == 2  \* parse_form_submit_dict calls of one process

\* hash(data) raises TypeError for a dict and for a list
Hashable(data) == data.k \notin {"dict", "list"}

\* functools.cache around parse_form_submit_dict: the key is made of the
\* argument, which must be hashable; a hit is answered from the cache; a
\* miss runs the function and stores what it returns, nothing when it
\* raises.  The function subscripts data as the one of site/newsletter.py
\* does.
cached_parse_form_submit_dict(data, c) ==
    IF ~Hashable(data)
    THEN [result |-> Raised("TypeError"), parsed |-> FALSE, cache |-> c]
    ELSE IF data \in DOMAIN c
    THEN [result |-> c[data], parsed |-> FALSE, cache |-> c]
    ELSE LET result == parse_form_submit_dict(data)
         IN  [result |-> result, parsed |-> TRUE,
              cache |-> IF result.k = "raise" THEN c ELSE c @@ (data :> result)]

ParsePayloads ==
    {p \in Payloads :
        (p.k = "dict" /\ "formId" \in DOMAIN p.v) =>
            p.v.formId \in {Str("newsletter"), Str("dummy-id")}}

\* helpers/site.py, lines 54-61
ParseCached ==
    /\ Len(parse_calls) < MaxParseCalls
    /\ \E data \in ParsePayloads :
          LET o == cached_parse_form_submit_dict(data, cache)
          IN  /\ cache' = o.cache
              /\ parse_calls' = Append(parse_calls,
                    [cached |-> TRUE, data |-> data, result |-> o.result, parsed |-> o.parsed])

\* site/newsletter.py, lines 40-51
ParseUncached ==
    /\ Len(parse_calls) < MaxParseCalls
    /\ \E data \in ParsePayloads :
          /\ parse_calls' = Append(parse_calls,
                [cached |-> FALSE, data |-> data, result |-> parse_form_submit_dict(data),
                 parsed |-> TRUE])
          /\ UNCHANGED cache

InitParse ==
    /\ PipelineIdle
    /\ ValidateIdle
    /\ IoIdle

NextParse ==
    /\ ParseCached \/ ParseUncached
    /\ UNCHANGED <<pipe_vars, val_vars, write_vars, fetch_vars, backfill_vars, handler_vars>>

SpecParse == InitParse /\ [][NextParse]_vars

\* C20 as stated: when one of the two functions has been called twice on the
\* same well-formed submit-form payload, both calls have returned equal
\* structured results and the second one was answered without parsing.
C20_SecondCallFromCache ==
    \A i, j \in 1..Len(parse_calls) :
        (/\ i < j
         /\ parse_calls[i].cached = parse_calls[j].cached
         /\ parse_calls[i].data = parse_calls[j].data
         /\ parse_form_submit_dict(parse_calls[i].data).k = "FormSubmitData") =>
            /\ parse_calls[i].result.k = "FormSubmitData"
            /\ parse_calls[j].result = parse_calls[i].result
            /\ ~parse_calls[j].parsed

\* C21: every step of preprocess_events calls the preprocessor that follows
\* the ones called so far in the list, on the batch the previous one
\* returned (the input batch for the first), and the call after which
\* preprocess_events returns is the call of the last preprocessor of the
\* list, whose output is the result.
C21_AppliedOnceInListOrder ==
    [][applied' # applied =>
          /\ Len(applied) < Len(preprocessors)
          /\ applied' = Append(applied, preprocessors[Len(applied) + 1])
          /\ df_in' = df
          /\ applied = <<>> => df = raw
          /\ status' = "done" <=> (status' # "raised" /\ applied' = preprocessors)
          /\ status' = "raised" => df' = df]_vars

\* run_pipeline's eight preprocessors have all been called and the result
\* is not the input batch
C21_Witness ==
    /\ status = "done"
    /\ applied = RunPipelinePreprocessors
    /\ preprocessors = applied
    /\ df # raw
    /\ df.rows # <<>>

(***************************************************************************)
(* has_email_input called on its own on an event.                          *)
(***************************************************************************)
CallHasEmailInput ==
    /\ outcome = <<>>
    /\ event # NoEvent
    /\ outcome' = <<has_email_input(event)>>
    /\ UNCHANGED <<pipe_vars, event, io_vars>>

NextEmailInput == CallHasEmailInput

SpecEmailInput == InitValidate /\ [][NextEmailInput]_vars

\* the payload of the event is a dictionary that parse_form_submit_dict takes
WellFormed(ev) ==
    /\ ev[SEMISTRUCT_FORM_SUBMIT].k = "dict"
    /\ {"formId", "formClasses", "elements"} \subseteq DOMAIN ev[SEMISTRUCT_FORM_SUBMIT].v
    /\ \A i \in 1..Len(ev[SEMISTRUCT_FORM_SUBMIT].v.elements) :
          {"name", "nodeName"} \subseteq DOMAIN ev[SEMISTRUCT_FORM_SUBMIT].v.elements[i]

\* C22: on a payload that parses, has_email_input returns a bool, and true
\* exactly when one element of the payload has nodeName INPUT and type
\* email, both on that element.
C22_EmailInputOnOneElement ==
    (outcome # <<>> /\ WellFormed(event)) =>
        /\ outcome[1].raised = ""
        /\ outcome[1].ret \in {Bool(TRUE), Bool(FALSE)}
        /\ outcome[1].ret = Bool(TRUE) <=>
              \E i \in 1..Len(event[SEMISTRUCT_FORM_SUBMIT].v.elements) :
                  LET e == event[SEMISTRUCT_FORM_SUBMIT].v.elements[i]
                  IN  /\ e.nodeName = Str("INPUT")
                      /\ "type" \in DOMAIN e
                      /\ e.type = Str("email")

\* an INPUT of type text next to a BUTTON of type email: false
C22_Witness ==
    /\ outcome # <<>>
    /\ WellFormed(event)
    /\ outcome[1].ret = Bool(FALSE)
    /\ \E i, j \in 1..Len(event[SEMISTRUCT_FORM_SUBMIT].v.elements) :
          /\ i # j
          /\ event[SEMISTRUCT_FORM_SUBMIT].v.elements[i].nodeName = Str("INPUT")
          /\ event[SEMISTRUCT_FORM_SUBMIT].v.elements[j].type = Str("email")

\* C23 as stated: when run_pipeline is about to run the newsletter-flag
\* step, the submit-form payload of every row is None or a dict.
C23_PayloadNoneOrDict ==
    (status = "running" /\ preprocessors = RunPipelinePreprocessors
     /\ Current = "AddFieldFormSubmitIsNewsletter") =>
        \A i \in 1..Len(df.rows) : df.rows[i][SEMISTRUCT_FORM_SUBMIT].k \in {"None", "dict"}

(***************************************************************************)
(* The verifiers of helpers/site.py: verify calls every verifier of the    *)
(* list, then takes all() of what they returned.                           *)
(***************************************************************************)
has_nonempty_data(ev) ==
    Returns("has_nonempty_data", Bool(ev[SEMISTRUCT_FORM_SUBMIT].k # "None"), 0)

\* SiteNewsletterFormVerifier.has_email_input: parse_form_submit_dict is the
\* cached function of the module
verifier_has_email_input(ev, c) ==
    LET o == cached_parse_form_submit_dict(ev[SEMISTRUCT_FORM_SUBMIT], c)
        n == IF o.parsed THEN 1 ELSE 0
    IN  IF o.result.k = "raise" THEN Throws("has_email_input", o.result.v, n)
        ELSE Returns("has_email_input",
                     Bool(\E i \in 1..Len(o.result.v.elements) :
                             /\ o.result.v.elements[i].node_name = Str("INPUT")
                             /\ o.result.v.elements[i].type = Str("email")), n)

has_correct_urlpath(ev) ==
    Returns("has_correct_urlpath", Bool(ev[PAGE_URLPATH] = Str("/subscribe")), 0)

VerifierClasses == {"SiteNewsletterFormVerifier", "AfroLANewsletterFormVerifier"}

\* what the calls of the verifiers property of the class give, in list order
verifiers(class, ev, c) ==
    <<has_nonempty_data(ev), verifier_has_email_input(ev, c)>>
        \o (IF class = "AfroLANewsletterFormVerifier" THEN <<has_correct_urlpath(ev)>> ELSE <<>>)

\* all([verify(event) for verify in self.verifiers]): the list is built
\* first, by calling one verifier after another; the first exception leaves
\* verify
RECURSIVE PyAllOfList(_)
PyAllOfList(results) ==
    IF results = <<>> THEN [ret |-> Bool(TRUE), raised |-> "", parses |-> 0, evaluated |-> <<>>]
    ELSE IF Head(results).raised # "" THEN Head(results)
    ELSE LET rest == PyAllOfList(Tail(results))
         IN  [ret |-> IF rest.raised # "" THEN rest.ret
                      ELSE Bool(Truthy(Head(results).ret) /\ Truthy(rest.ret)),
              raised |-> rest.raised,
              parses |-> Head(results).parses + rest.parses,
              evaluated |-> Head(results).evaluated \o rest.evaluated]

verify(class, ev, c) == PyAllOfList(verifiers(class, ev, c))

Verify ==
    /\ outcome = <<>>
    /\ event # NoEvent
    /\ \E class \in VerifierClasses :
          /\ outcome' = <<verify(class, event, cache)>>
          /\ cache' = cached_parse_form_submit_dict(event[SEMISTRUCT_FORM_SUBMIT], cache).cache
    /\ UNCHANGED <<pipe_vars, event, write_vars, fetch_vars, backfill_vars, handler_vars,
                   parse_calls>>

NextVerify == Verify

SpecVerify == InitValidate /\ [][NextVerify]_vars

\* C24 as stated: when verify was called on an event for which a verifier
\* of the list fails (the payload is None, so has_nonempty_data is false,
\* or the page is another one than the AfroLA verifier asks for), it has
\* returned False and raised nothing.
C24_VerifyFalseWithoutRaise ==
    (/\ outcome # <<>>
     /\ \/ event[SEMISTRUCT_FORM_SUBMIT].k = "None"
        \/ /\ event[PAGE_URLPATH] # Str("/subscribe")
           /\ \E k \in 1..Len(outcome[1].evaluated) :
                 outcome[1].evaluated[k] = "has_correct_urlpath") =>
        /\ outcome[1].raised = ""
        /\ outcome[1].ret = Bool(FALSE)

\* the steps of the kinds ops that fetch_events has taken for the timestamps
\* of the list from place i on
StepsFrom(i, ops) ==
    {p \in 1..Len(fetch_log) :
        /\ fetch_log[p].op \in ops
        /\ \E k \in i..Len(timestamps) : fetch_log[p].timestamp = timestamps[k]}

\* C25: fetch_events goes on to read a timestamp's folder only when the
\* download of the timestamp has exited with return code 0; when it has
\* raised the fetch error, the download of the timestamp it was at had
\* another return code, the batches yielded are those of the timestamps
\* before it, one each and in order, and nothing was read, deleted or
\* yielded for that timestamp or a later one; with distinct date-hours no
\* other timestamp's step has touched its folder either.
C25_FailedDownloadRaises ==
    /\ fetch_status \in {"read", "delete", "yield"} =>
          /\ Process(timestamps[fetch_i]) # 0
          /\ processes[Process(timestamps[fetch_i])].exited
          /\ processes[Process(timestamps[fetch_i])].returncode = 0
    /\ fetch_status = "EventFetchError" =>
          /\ processes[Process(timestamps[fetch_i])].exited
          /\ processes[Process(timestamps[fetch_i])].returncode # 0
          /\ Len(dfs) = fetch_i - 1
          /\ \A k \in 1..Len(dfs) : dfs[k].timestamp = timestamps[k]
          /\ StepsFrom(fetch_i, {"read", "delete", "rmtree", "yield"}) = {}
          /\ DistinctHours =>
                \A p \in 1..Len(fetch_log) :
                    fetch_log[p].op \in {"read", "delete", "rmtree"} =>
                        convert_to_s3_folder(fetch_log[p].timestamp)
                            # convert_to_s3_folder(timestamps[fetch_i])

\* the second of three downloads has failed: one batch was yielded and the
\* third download had been started
C25_Witness ==
    /\ fetch_status = "EventFetchError"
    /\ fetch_i = 2
    /\ Len(timestamps) = 3
    /\ Len(dfs) = 1
    /\ Len(processes) = 3
    /\ delete_after_read

\* C26: when a write_events call has raised, the table holds the rows it
\* held before the call, none of the call's rows among them unless it was
\* there before, and the call has returned nothing.
C26_FailedWriteStoresNothing ==
    (writes # <<>> /\ writes.raised # "") =>
        /\ db = writes.before
        /\ writes.ret = PyNone

\* the insert of two rows with new keys has failed on a table with a row
C26_Witness ==
    /\ writes # <<>>
    /\ writes.raised # ""
    /\ writes.failed
    /\ Len(writes.df) = 2
    /\ Len(db) = 1
    /\ Keys(writes.df) \cap Keys(db) = {}
    /\ Cardinality(Keys(writes.df)) = 2

\* the rows of the batch that are skipped: the key is in the table, or an
\* earlier row of the batch has it
Skipped(data, stored) ==
    {i \in 1..Len(data) :
        \/ \E r \in 1..Len(stored) :
              /\ stored[r][SITE_NAME] = data[i][SITE_NAME]
              /\ stored[r][EVENT_ID] = data[i][EVENT_ID]
        \/ \E j \in 1..(i - 1) :
              /\ data[j][SITE_NAME] = data[i][SITE_NAME]
              /\ data[j][EVENT_ID] = data[i][EVENT_ID]}

\* C27: the table never holds two rows with the same site_name and
\* event_id; a call that returned has left every row stored before it as it
\* was, has added rows of its batch only, and has returned the number of
\* rows it added, which is the number of rows of the batch less the rows
\* skipped for their key.
C27_OneRowPerKey ==
    /\ \A r, q \in 1..Len(db) :
          (db[r][SITE_NAME] = db[q][SITE_NAME] /\ db[r][EVENT_ID] = db[q][EVENT_ID]) => r = q
    /\ (writes # <<>> /\ writes.raised = "") =>
          /\ Len(writes.before) <= Len(db)
          /\ SubSeq(db, 1, Len(writes.before)) = writes.before
          /\ \A r \in (Len(writes.before) + 1)..Len(db) :
                \E i \in 1..Len(writes.df) : db[r] = writes.df[i]
          /\ writes.ret = PyInt(Len(db) - Len(writes.before))
          /\ Len(writes.df) - writes.ret.v = Cardinality(Skipped(writes.df, writes.before))

\* a batch of a row with a stored key and other values and a row with a new
\* key: one row added, one skipped
C27_Witness ==
    /\ writes # <<>>
    /\ writes.raised = ""
    /\ Len(writes.df) = 2
    /\ writes.ret = PyInt(1)
    /\ \E r \in 1..Len(writes.before) :
          /\ Key(writes.before[r]) = Key(writes.df[1])
          /\ writes.before[r] # writes.df[1]
          /\ db[r] = writes.before[r]

\* the places of the log with a step of kind op for the timestamp
StepsOf(op, timestamp) ==
    {p \in 1..Len(fetch_log) : fetch_log[p] = [op |-> op, timestamp |-> timestamp]}

\* the downloads started and not yet waited for
InFlight ==
    Cardinality({p \in 1..Len(fetch_log) : fetch_log[p].op = "start"})
        - Cardinality({p \in 1..Len(fetch_log) : fetch_log[p].op = "communicate"})

\* C28: in a fetch_events run with num_processes >= 1 on distinct
\* timestamps, at most num_processes downloads are started and not yet
\* waited for; the download of a timestamp is started at most once, once
\* when fetch_events has ended normally, and a wait for a timestamp's
\* download comes after its start.
C28_AtMostNumProcessesInFlight ==
    (num_processes >= 1 /\ fetch_status # "idle") =>
        /\ InFlight <= num_processes
        /\ Len(processes) = Cardinality({p \in 1..Len(fetch_log) : fetch_log[p].op = "start"})
        /\ \A k \in 1..Len(timestamps) :
              /\ Cardinality(StepsOf("start", timestamps[k])) <= 1
              /\ fetch_status = "done" => Cardinality(StepsOf("start", timestamps[k])) = 1
              /\ \A w \in StepsOf("communicate", timestamps[k]) :
                    \E p \in StepsOf("start", timestamps[k]) : p < w

\* three timestamps, two downloads at a time: the first was waited for and
\* the third started, two are in flight
C28_Witness ==
    /\ num_processes = 2
    /\ Len(timestamps) = 3
    /\ fetch_i = 2
    /\ fetch_status = "communicate"
    /\ Len(processes) = 3
    /\ InFlight = 2

\* C29: in a run with num_processes >= 1 on distinct timestamps, a read of
\* a timestamp's folder comes after the exit of its download, which was
\* with return code 0; a removal comes only with delete_after_read, after
\* the read of the timestamp and before its yield, and a yield then has a
\* removal before it; the whole data directory is removed only at the last
\* timestamp of the list, after every download that was started has exited.
C29_ReadThenDeleteThenYield ==
    (num_processes >= 1 /\ fetch_status # "idle") =>
        \A p \in 1..Len(fetch_log) :
            LET t == fetch_log[p].timestamp
                op == fetch_log[p].op
            IN  /\ op = "read" =>
                      /\ \E q \in StepsOf("exit", t) : q < p
                      /\ processes[Process(t)].exited /\ processes[Process(t)].returncode = 0
                /\ op \in {"delete", "rmtree"} =>
                      /\ delete_after_read
                      /\ \E q \in StepsOf("read", t) : q < p
                      /\ \A q \in StepsOf("yield", t) : p < q
                /\ (op = "yield" /\ delete_after_read) =>
                      \E q \in StepsOf("delete", t) \cup StepsOf("rmtree", t) : q < p
                /\ op = "delete" => t # timestamps[Len(timestamps)]
                /\ op = "rmtree" =>
                      /\ t = timestamps[Len(timestamps)]
                      /\ \A s \in 1..Len(fetch_log) :
                            fetch_log[s].op = "start" =>
                                /\ s < p
                                /\ \E q \in StepsOf("exit", fetch_log[s].timestamp) : q < p
                      /\ \A k \in 1..Len(timestamps) : StepsOf("start", timestamps[k]) # {}

\* three timestamps were fetched two at a time with delete_after_read: two
\* folders were deleted, then the data directory
C29_Witness ==
    /\ fetch_status = "done"
    /\ delete_after_read
    /\ num_processes = 2
    /\ Len(timestamps) = 3
    /\ StepsOf("delete", timestamps[1]) # {}
    /\ StepsOf("delete", timestamps[2]) # {}
    /\ StepsOf("rmtree", timestamps[3]) # {}

\* the rows of the raw batch that have every required field, none missing
RawComplete ==
    {j \in 1..Len(raw.rows) :
        /\ fields_required \subseteq raw.columns
        /\ \A f \in fields_required : ~isna(raw.rows[j][f])}

\* the row is what ConvertFieldTypes makes of the raw row j
ConvertedFrom(row, j) ==
    \A f \in FieldSnowplow \cap raw.columns :
        row[f] = ConvertCell(fields_int, fields_float, fields_datetime, fields_categorical,
                             fields_json, f, raw.rows[j][f])

====
